---- MODULE Spec2Model ----
(***************************************************************************)
(* A model of the client-side synchronization engine of parsec-cloud:      *)
(*   - Syncer (parsec/core/fs/syncer.py): sync / _sync_nolock and the      *)
(*     backend requests it sends, run by concurrent tasks under one        *)
(*     trio.Lock;                                                          *)
(*   - OpenedFile (parsec/core/fs/opened_file.py): the command log with    *)
(*     write / truncate / create_marker / drop_until_marker;               *)
(*   - PGBlockComponent / PGBlockStoreComponent                            *)
(*     (parsec/backend/postgresql/block.py): block creation.               *)
(* Each part has its own specification; the variables of the other parts   *)
(* stay at their initial value.                                            *)
(***************************************************************************)
EXTENDS Integers, Sequences, FiniteSets, TLC

VARIABLES
    \* ---- Syncer and its collaborators
    store,       \* local manifest store: entry id -> local manifest (or NoManifest)
    vlobs,       \* backend vlob slots: entry id -> [version, blob]
    blockstore,  \* backend blocks: the set of block ids that exist
    lockOwner,   \* Syncer._lock: the task owning it, or NoTask
    lockQueue,   \* Syncer._lock: the tasks parked on it, in arrival order
    pc,          \* per task: "idle", "waiting", "acquired", "running"
    call,        \* per task: the arguments of its current sync(access, recursive)
    stack,       \* per task: the _sync_nolock frames of the running body
    last,        \* the last step a _sync_nolock body took (history)
    createdOk,   \* per entry: number of vlob_create answered ok (history)
    hiBase,      \* per entry: highest base_version ever stored locally (history)
    prev,        \* the last sync run that returned, while nothing changed since (history)
    nBlocks,     \* number of dirty blocks created so far
    nEnv,        \* number of changes made so far by writers and other devices
    \* ---- OpenedFile
    of_size,       \* OpenedFile.size
    of_cmds,       \* OpenedFile._cmds_list
    of_marker,     \* the marker create_marker returned to the syncer (0: none)
    of_nextMarker, \* the identity of the next MarkerCmd object
    of_after,      \* the commands recorded since create_marker (history)
    of_last,       \* the last call and what it did (history)
    \* ---- backend block component
    pg_block,       \* table block: the metadata rows
    pg_block_data,  \* table block_data: the rows of the blockstore
    pg_maintenance, \* whether the realm is under maintenance
    pg_call,        \* per client: its call of PGBlockComponent.create
    \* ---- the requests a publish sends
    nt_crypto,      \* whether parsec.utils provides sym_encrypt and sign
    nt_pc,          \* where the publishing _sync_nolock is
    nt_args,        \* its access, notify and manifest
    nt_msgs,        \* its notify_msgs
    nt_payload,     \* the payload handed to backend_conn.send
    \* ---- OpenedFilesManager
    om_opened,      \* opened_files: id -> the OpenedFile stored under it
    om_resolved,    \* _resolved_placeholder_accesses: placeholder id -> resolved id
    om_known,       \* the ids callers hold (history)
    om_last,        \* the last call and what it returned (history)
    \* ---- BackendCmds on one transport
    bc_pc,          \* where each task's command stands
    bc_req,         \* the request each task sent
    bc_sent,        \* transport: the requests the backend has not answered yet
    bc_recv,        \* transport: the responses nobody has read yet
    bc_last,        \* the last step of a command and what it led to (history)
    \* ---- the sync gate of an OpenedFile
    gt_event,       \* _not_syncing_event of each OpenedFile: TRUE when set
    gt_scopes,      \* the start_syncing scopes each task is in, innermost last
    gt_pc,          \* the OpenedFile a task is about to flush, back from
                    \* wait_not_syncing, or "idle"
    gt_last,        \* the last call on the gate and how it went (history)
    \* ---- certificates
    ct_cert,        \* the certificate last built
    ct_built,       \* the arguments it was built from (history)
    ct_verified,    \* the last verify call on it and what it returned (history)
    \* ---- fuse_mountpoint_runner, per mountpoint
    mp_pc,          \* where the runner task is
    mp_child,       \* the child task of the runner's nursery
    mp_thread,      \* the worker thread that runs FUSE
    mp_stopped,     \* fuse_thread_stopped: TRUE when set
    mp_exit,        \* whether fuse_operations.schedule_exit was called
    mp_events,      \* the events sent on the event bus (history)
    mp_cancelled,   \* whether the runner's scope was cancelled from outside
    mp_exc          \* the exception the runner is raising

syncVars == <<store, vlobs, blockstore, lockOwner, lockQueue, pc, call, stack,
              last, createdOk, hiBase, prev, nBlocks, nEnv>>
ofVars == <<of_size, of_cmds, of_marker, of_nextMarker, of_after, of_last>>
pgVars == <<pg_block, pg_block_data, pg_maintenance, pg_call>>
ntVars == <<nt_crypto, nt_pc, nt_args, nt_msgs, nt_payload>>
omVars == <<om_opened, om_resolved, om_known, om_last>>
bcVars == <<bc_pc, bc_req, bc_sent, bc_recv, bc_last>>
gtVars == <<gt_event, gt_scopes, gt_pc, gt_last>>
ctVars == <<ct_cert, ct_built, ct_verified>>
mpVars == <<mp_pc, mp_child, mp_thread, mp_stopped, mp_exit, mp_events,
            mp_cancelled, mp_exc>>
vars == <<syncVars, ofVars, pgVars, ntVars, omVars, bcVars, gtVars, ctVars, mpVars>>

\* ------------------------------------------------------------------ bounds
MaxEnv == 2
MaxCmds == 4
MaxSize == 3
MaxPending == 3
MaxInFlight == 2
\* OpenedFile.block_size (2 ** 16 in the source), scaled down.
block_size == 2

\* ------------------------------------------------------------------ helpers
Max(a, b) == IF a >= b THEN a ELSE b

IsPrefix(s, t) == Len(s) <= Len(t) /\ SubSeq(t, 1, Len(s)) = s

\* ------------------------------------------------------------------ entries
Tasks == {"t1", "t2"}
NoTask == "none"

\* The workspace tree the tasks sync: a root folder holding one file.
Entries == {"root", "f"}
Files == {"f"}
Folders == Entries \ Files
ChildrenOf(e) == IF e = "root" THEN <<"f">> ELSE <<>>

NoManifest == [type |-> "none", base_version |-> 0, need_sync |-> FALSE,
               is_placeholder |-> FALSE, blocks |-> <<>>, dirty_blocks |-> <<>>,
               children |-> <<>>]

\* A placeholder entry, as create_file / create_folder leave it in the parent.
NewManifest(e) == [type |-> IF e \in Files THEN "file" ELSE "folder",
                   base_version |-> 0, need_sync |-> TRUE, is_placeholder |-> TRUE,
                   blocks |-> <<>>, dirty_blocks |-> <<>>, children |-> ChildrenOf(e)]

NoBlob == [type |-> "none", version |-> 0, blocks |-> <<>>, children |-> <<>>,
           author |-> "none"]
NoVlob == [version |-> 0, blob |-> NoBlob]

is_file_manifest(m) == m.type = "file"
is_folder_manifest(m) == m.type = "folder"

\* The values of sync's `recursive` argument: a boolean, or a mapping
\* name -> child_recursive (keys: the names it holds, on: those mapped to True).
RecTrue == [kind |-> "bool", val |-> TRUE, keys |-> {}, on |-> {}]
RecFalse == [kind |-> "bool", val |-> FALSE, keys |-> {}, on |-> {}]
RecDict(keys, on) == [kind |-> "dict", val |-> FALSE, keys |-> keys, on |-> on]
Recursives == {RecTrue, RecFalse, RecDict({"f"}, {})}

\* `if recursive:` -- a boolean is itself, a mapping is true when not empty.
Truthy(r) == IF r.kind = "bool" THEN r.val ELSE r.keys # {}

\* Wider values of `recursive`: a mapping that maps the child to True, one that does
\* not name it, and the empty mapping.
RecursivesWide == Recursives \cup {RecDict({"f"}, {"f"}), RecDict({"g"}, {}), RecDict({}, {})}

\* Mutant: every child is synced with recursive False.
ChildRecursiveFalse(r, name) == RecFalse

\* child_recursive of lines 171-174.
ChildRecursive(r, name) ==
    IF r.kind = "dict"
    THEN (IF name \in r.on THEN RecTrue ELSE RecFalse)
    ELSE r

NoCall == [access |-> "none", recursive |-> RecFalse]
\* last: the step's kind, the entry it was about, the status the task saw, the
\* version or block id it sent, whether it ended a run (by "returned" or "raised"),
\* whether that run came right after a run that returned on the same arguments
\* (second), and whether it came right after a run that posted the dirty blocks of
\* this entry and then failed to publish its manifest (retry), and the ids of the
\* fs.entry.synced events the step sent (events).
NoLast == [op |-> "none", id |-> "none", status |-> "none",
           version |-> 0, ended |-> "no", second |-> FALSE, retry |-> FALSE,
           events |-> <<>>]
\* prev: the arguments of the last run if it returned, or the file whose publish
\* failed after its blocks were posted (failed); reset by any change made since.
NoPrev == [valid |-> FALSE, id |-> "none", recursive |-> RecFalse, failed |-> "none"]


\* ------------------------------------------------------------------ manifests
\* parsec.core.fs.data.local_to_remote_manifest: the local manifest as the
\* remote form of its base version.
local_to_remote_manifest(m) ==
    [type |-> m.type, version |-> m.base_version, blocks |-> m.blocks,
     children |-> m.children, author |-> "device"]

\* parsec.core.fs.data.remote_to_local_manifest: a remote manifest back in local
\* form: clean, resolved, based on the remote version.
remote_to_local_manifest(r) ==
    [type |-> r.type, base_version |-> r.version, need_sync |-> FALSE,
     is_placeholder |-> FALSE, blocks |-> r.blocks, dirty_blocks |-> <<>>,
     children |-> r.children]

\* Mutant: the remote version is the base version itself.
FileRemoteManifestSameVersion(m) ==
    [type |-> "file", version |-> m.base_version,
     blocks |-> (m.blocks \o m.dirty_blocks) \o m.dirty_blocks,
     children |-> <<>>, author |-> "device"]

\* syncer.py lines 136-146: manifest["blocks"] += manifest["dirty_blocks"], then
\* "blocks": manifest["blocks"] + manifest["dirty_blocks"].
FileRemoteManifest(m) ==
    LET blocks1 == m.blocks \o m.dirty_blocks
    IN  [type |-> "file", version |-> m.base_version + 1,
         blocks |-> blocks1 \o m.dirty_blocks,
         children |-> <<>>, author |-> "device"]

\* Mutant: the version is left as local_to_remote_manifest gives it.
FolderRemoteManifestSameVersion(m) == local_to_remote_manifest(m)

\* syncer.py lines 184-185.
FolderRemoteManifest(m) ==
    [local_to_remote_manifest(m) EXCEPT !.version = @ + 1]

RemoteManifest(m) ==
    IF is_file_manifest(m) THEN FileRemoteManifest(m) ELSE FolderRemoteManifest(m)

\* Mutant: the dirty blocks are kept when the manifest is rewritten.
updated_manifest_keeps_dirty(remote) ==
    [remote_to_local_manifest(remote) EXCEPT !.dirty_blocks = remote.blocks]

\* syncer.py lines 165 and 204: updated_manifest, the manifest stored at commit.
updated_manifest(remote) == remote_to_local_manifest(remote)

\* Mutant: always update.
PublishCmdAlwaysUpdate(m) == "vlob_update"

\* syncer.py lines 151-162 and 190-201: create a placeholder, update the rest.
PublishCmd(m) == IF m.is_placeholder THEN "vlob_create" ELSE "vlob_update"

\* ------------------------------------------------------------------ backend
\* How a request ends: answered, lost before the backend saw it, or handled by the
\* backend with the answer lost on the way back.
Outcomes == {"delivered", "lost_request", "lost_response"}

\* The vault's answer to vlob_create and vlob_update (spec, section 6).
VlobCreateStatus(id) == IF vlobs[id].version > 0 THEN "already_exists" ELSE "ok"

VlobUpdateStatus(id, version) ==
    IF vlobs[id].version = 0 THEN "not_found"
    ELSE IF version # vlobs[id].version + 1 THEN "bad_version"
    ELSE "ok"

\* The backend's answer to a block creation: block.py lines 170-171.
BlockCreateStatus(b) == IF b \in blockstore THEN "already_exists" ELSE "ok"

\* Mutants: the answer's status is not looked at.
AnyStatusOk(status) == TRUE

\* syncer.py line 89, 101, 113: assert ret["status"] == "ok".
block_post_ok(status) == status = "ok"
vlob_create_ok(status) == status = "ok"
vlob_update_ok(status) == status = "ok"

\* ------------------------------------------------------------------ Syncer
\* A running _sync_nolock call: its arguments, the manifest it read, where it stands,
\* its loop index, the children whose _sync_nolock call returned (history) and the
\* block posts that went through, each with the answer the task saw (history).
Frame(a, r) == [access |-> a, recursive |-> r, manifest |-> NoManifest,
                pc |-> "start", i |-> 1, done |-> <<>>, posted |-> <<>>]

Top(t) == stack[t][Len(stack[t])]
ReplaceTop(s, fr) == [s EXCEPT ![Len(s)] = fr]
Pop(s) == SubSeq(s, 1, Len(s) - 1)

Step(op, a, t, status) ==
    [NoLast EXCEPT !.op = op, !.id = a, !.status = status]

\* Mutant: no event is sent.
entry_synced_never(step) == step

\* syncer.py lines 130, 181 and 207: signal("fs.entry.synced").send("local", id=...).
entry_synced(step) == [step EXCEPT !.events = Append(@, step.id)]

\* The record of a step that ends the run of task t with res.
Ending(t, step, res) ==
    [step EXCEPT !.ended = res,
                 !.second = /\ res = "returned"
                            /\ prev.valid
                            /\ prev.id = call[t].access
                            /\ prev.recursive = call[t].recursive,
                 !.retry = prev.failed # "none" /\ prev.failed = step.id]

\* trio.Lock.release as `async with self._lock` runs it when the body of task t
\* ends, by return or by exception: the first parked task becomes the owner.
EndRun(t, step, res) ==
    /\ stack' = [stack EXCEPT ![t] = <<>>]
    /\ last' = Ending(t, step, res)
    /\ prev' = IF res = "returned"
               THEN [valid |-> TRUE, id |-> call[t].access,
                     recursive |-> call[t].recursive, failed |-> "none"]
               ELSE IF /\ step.op \in {"vlob_create", "vlob_update"}
                       /\ Top(t).manifest.dirty_blocks # <<>>
                    THEN [NoPrev EXCEPT !.failed = step.id]
                    ELSE NoPrev
    /\ call' = [call EXCEPT ![t] = NoCall]
    /\ IF lockQueue = <<>>
       THEN /\ lockOwner' = NoTask
            /\ lockQueue' = lockQueue
            /\ pc' = [pc EXCEPT ![t] = "idle"]
       ELSE /\ lockOwner' = Head(lockQueue)
            /\ lockQueue' = Tail(lockQueue)
            /\ pc' = [pc EXCEPT ![t] = "idle", ![Head(lockQueue)] = "acquired"]

Continue(t, step, fr) ==
    /\ stack' = [stack EXCEPT ![t] = ReplaceTop(stack[t], fr)]
    /\ last' = step
    /\ UNCHANGED <<pc, call, lockOwner, lockQueue, prev>>

Push(t, step, fr, child) ==
    /\ stack' = [stack EXCEPT ![t] = Append(ReplaceTop(stack[t], fr), child)]
    /\ last' = step
    /\ UNCHANGED <<pc, call, lockOwner, lockQueue, prev>>

\* A _sync_nolock call returns: to the folder that called it, or out of sync().
Return(t, step) ==
    IF Len(stack[t]) > 1
    THEN /\ stack' = [stack EXCEPT ![t] =
                        [Pop(stack[t]) EXCEPT ![Len(stack[t]) - 1].done =
                                                  Append(@, Top(t).access)]]
         /\ last' = step
         /\ UNCHANGED <<pc, call, lockOwner, lockQueue, prev>>
    ELSE EndRun(t, step, "returned")

\* Mutant: an exception ends the run of task t with the lock still held.
RaiseKeepsLock(t, step) ==
    /\ stack' = [stack EXCEPT ![t] = <<>>]
    /\ last' = Ending(t, step, "raised")
    /\ prev' = NoPrev
    /\ call' = [call EXCEPT ![t] = NoCall]
    /\ pc' = [pc EXCEPT ![t] = "idle"]
    /\ UNCHANGED <<lockOwner, lockQueue>>

\* An exception leaves every _sync_nolock frame and sync().
Raise(t, step) == EndRun(t, step, "raised")

\* Mutant: the body is entered without taking the lock.
sync_without_lock(t) ==
    /\ pc[t] = "idle"
    /\ pc' = [pc EXCEPT ![t] = "acquired"]
    /\ UNCHANGED <<lockOwner, lockQueue>>
    /\ UNCHANGED <<store, hiBase, vlobs, blockstore, call, stack, last, createdOk,
                   prev, nBlocks, nEnv, ofVars, pgVars, ntVars, omVars, bcVars, gtVars, ctVars, mpVars>>

\* syncer.py lines 79-83: sync() takes self._lock, or parks on it.
sync(t) ==
    /\ pc[t] = "idle"
    /\ IF lockOwner = NoTask
       THEN /\ lockOwner' = t
            /\ lockQueue' = lockQueue
            /\ pc' = [pc EXCEPT ![t] = "acquired"]
       ELSE /\ lockOwner' = lockOwner
            /\ lockQueue' = Append(lockQueue, t)
            /\ pc' = [pc EXCEPT ![t] = "waiting"]
    /\ UNCHANGED <<store, hiBase, vlobs, blockstore, call, stack, last, createdOk,
                   prev, nBlocks, nEnv, ofVars, pgVars, ntVars, omVars, bcVars, gtVars, ctVars, mpVars>>

\* local_folder_fs.get_entry_path looks the entry up from the root through the local
\* manifests: the path of an entry, and whether a manifest is missing on it.
EntryPath(id) == IF id = "root" THEN <<"root">> ELSE <<"root", id>>

\* Mutant: get_entry_path never raises FSManifestLocalMiss.
local_miss_never(id) == FALSE

local_miss(id) == \E i \in 1..Len(EntryPath(id)) : store[EntryPath(id)[i]].type = "none"

\* syncer.py lines 70-77: sync_by_id returns at once on FSManifestLocalMiss, and
\* otherwise calls sync(access, notify=notify), recursive being left to its default.
sync_by_id(t, id) ==
    /\ pc[t] = "idle"
    /\ IF local_miss(id)
       THEN /\ last' = [Step("local_miss", id, t, "ok") EXCEPT !.ended = "returned"]
            /\ UNCHANGED <<pc, call, lockOwner, lockQueue>>
       ELSE /\ call' = [call EXCEPT ![t] = [access |-> id, recursive |-> RecTrue]]
            /\ last' = last
            /\ IF lockOwner = NoTask
               THEN /\ lockOwner' = t
                    /\ lockQueue' = lockQueue
                    /\ pc' = [pc EXCEPT ![t] = "acquired"]
               ELSE /\ lockOwner' = lockOwner
                    /\ lockQueue' = Append(lockQueue, t)
                    /\ pc' = [pc EXCEPT ![t] = "waiting"]
    /\ UNCHANGED <<store, hiBase, vlobs, blockstore, stack, createdOk,
                   prev, nBlocks, nEnv, ofVars, pgVars, ntVars, omVars, bcVars, gtVars, ctVars, mpVars>>

\* syncer.py line 84: with the lock held, the body starts on the arguments of the
\* call (sync() reads none of them before, so they are drawn here unless sync_by_id
\* fixed them).
sync_enter(t, a, r) ==
    /\ pc[t] = "acquired"
    /\ call[t] # NoCall => (a = call[t].access /\ r = call[t].recursive)
    /\ pc' = [pc EXCEPT ![t] = "running"]
    /\ call' = [call EXCEPT ![t] = [access |-> a, recursive |-> r]]
    /\ stack' = [stack EXCEPT ![t] = <<Frame(a, r)>>]
    /\ UNCHANGED <<store, hiBase, vlobs, blockstore, lockOwner, lockQueue,
                   last, createdOk, prev, nBlocks, nEnv, ofVars, pgVars, ntVars, omVars, bcVars, gtVars, ctVars, mpVars>>

\* The local store becomes st (local_manifest_fs.set_manifest and its kin).
Stored(st) ==
    /\ store' = st
    /\ hiBase' = [e \in Entries |-> Max(hiBase[e], st[e].base_version)]

\* Mutant: the early return is missing.
NeverNothingToSync(m) == FALSE

\* syncer.py lines 128 and 179: if not manifest["need_sync"].
NothingToSync(m) == ~m.need_sync

\* Mutant: the local copy is kept.
mark_outdated_manifest_skipped(a) == store

\* local_manifest_fs.mark_outdated_manifest: the local copy is dropped.
mark_outdated_manifest(a) == [store EXCEPT ![a] = NoManifest]

\* syncer.py lines 179-182 (and what follows when the folder needs a sync): the
\* folder frame fr, its children done, either has nothing to do or goes on to publish.
FolderCheck(t, fr, m) ==
    IF NothingToSync(m)
    THEN /\ Stored(mark_outdated_manifest(fr.access))
         /\ Return(t, entry_synced(Step("nothing", fr.access, t, "ok")))
    ELSE /\ Stored(store)
         /\ Continue(t, NoLast,
                     [fr EXCEPT !.manifest = m, !.pc = "publish"])

\* syncer.py lines 116-131 and 168-175: the manifest is read; a missing entry and a
\* file with nothing to sync return at once.
sync_nolock_start(t) ==
    /\ pc[t] = "running" /\ stack[t] # <<>>
    /\ Top(t).pc = "start"
    /\ LET fr == Top(t)
           a == fr.access
           m == store[a]
       IN  IF m.type = "none"
           THEN /\ Stored(store)
                /\ Return(t, Step("missing", a, t, "ok"))
           ELSE IF is_file_manifest(m)
           THEN IF NothingToSync(m)
                THEN /\ Stored(mark_outdated_manifest(a))
                     /\ Return(t, entry_synced(Step("nothing", a, t, "ok")))
                ELSE /\ Stored(store)
                     /\ Continue(t, NoLast,
                            [fr EXCEPT !.manifest = m, !.i = 1,
                               !.pc = IF m.dirty_blocks = <<>> THEN "publish" ELSE "post"])
           ELSE IF Truthy(fr.recursive)
                THEN /\ Stored(store)
                     /\ Continue(t, NoLast,
                            [fr EXCEPT !.manifest = m, !.i = 1, !.pc = "children"])
                ELSE FolderCheck(t, fr, m)
    /\ UNCHANGED <<vlobs, blockstore, createdOk, nBlocks, nEnv, ofVars, pgVars, ntVars, omVars, bcVars, gtVars, ctVars, mpVars>>

\* syncer.py lines 170-182: the next child is synced, in the order of the
\* manifest's children; after the last one the folder itself is looked at.
sync_nolock_children(t) ==
    /\ pc[t] = "running" /\ stack[t] # <<>>
    /\ Top(t).pc = "children"
    /\ LET fr == Top(t)
           m == fr.manifest
       IN  IF fr.i <= Len(m.children)
           THEN /\ Stored(store)
                /\ Push(t, NoLast, [fr EXCEPT !.i = @ + 1],
                        Frame(m.children[fr.i], ChildRecursive(fr.recursive, m.children[fr.i])))
           ELSE FolderCheck(t, fr, m)
    /\ UNCHANGED <<vlobs, blockstore, createdOk, nBlocks, nEnv, ofVars, pgVars, ntVars, omVars, bcVars, gtVars, ctVars, mpVars>>

\* syncer.py lines 133-135 with _backend_block_post (lines 86-90): the next dirty
\* block is posted.
sync_nolock_block_post(t) ==
    /\ pc[t] = "running" /\ stack[t] # <<>>
    /\ Top(t).pc = "post"
    /\ \E o \in Outcomes :
         LET fr == Top(t)
             m == fr.manifest
             b == m.dirty_blocks[fr.i]
             answer == BlockCreateStatus(b)
             seen == IF o = "delivered" THEN answer ELSE "unavailable"
             accepted == o = "delivered" /\ block_post_ok(seen)
             step == [Step("block_post", fr.access, t, seen) EXCEPT !.version = b]
         IN  /\ blockstore' = IF o # "lost_request" /\ answer = "ok"
                              THEN blockstore \cup {b} ELSE blockstore
             /\ IF accepted
                THEN Continue(t, step, [fr EXCEPT !.i = @ + 1,
                         !.posted = Append(@, [block |-> b, status |-> seen]),
                         !.pc = IF fr.i = Len(m.dirty_blocks) THEN "publish" ELSE "post"])
                ELSE Raise(t, step)
    /\ UNCHANGED <<store, hiBase, vlobs, createdOk, nBlocks, nEnv, ofVars, pgVars, ntVars, omVars, bcVars, gtVars, ctVars, mpVars>>

\* syncer.py lines 136-166 and 184-207 with _backend_vlob_create / _backend_vlob_update
\* (lines 98-114): the remote manifest is built and sent; once the backend said ok the
\* local manifest is rewritten from it.
sync_nolock_publish(t) ==
    /\ pc[t] = "running" /\ stack[t] # <<>>
    /\ Top(t).pc = "publish"
    /\ \E o \in Outcomes :
         LET fr == Top(t)
             a == fr.access
             m == fr.manifest
             remote == RemoteManifest(m)
             cmd == PublishCmd(m)
             answer == IF cmd = "vlob_create" THEN VlobCreateStatus(a)
                       ELSE VlobUpdateStatus(a, remote.version)
             seen == IF o = "delivered" THEN answer ELSE "unavailable"
             accepted == /\ o = "delivered"
                         /\ IF cmd = "vlob_create" THEN vlob_create_ok(seen)
                            ELSE vlob_update_ok(seen)
             step == [Step(cmd, a, t, seen) EXCEPT !.version = remote.version]
         IN  /\ vlobs' = IF o # "lost_request" /\ answer = "ok"
                         THEN [vlobs EXCEPT ![a] =
                                 [version |-> IF cmd = "vlob_create" THEN 1 ELSE remote.version,
                                  blob |-> remote]]
                         ELSE vlobs
             /\ IF accepted
                THEN /\ Stored([store EXCEPT ![a] = updated_manifest(remote)])
                     /\ createdOk' = IF cmd = "vlob_create"
                                     THEN [createdOk EXCEPT ![a] = @ + 1] ELSE createdOk
                     /\ Return(t, entry_synced(step))
                ELSE /\ Stored(store)
                     /\ createdOk' = createdOk
                     /\ Raise(t, step)
    /\ UNCHANGED <<blockstore, nBlocks, nEnv, ofVars, pgVars, ntVars, omVars, bcVars, gtVars, ctVars, mpVars>>

\* syncer.py lines 100 and 112: the task is cancelled while it awaits
\* self._backend_conn.send(payload), once the backend has accepted the request;
\* trio.Cancelled leaves every _sync_nolock frame and sync().
sync_nolock_publish_cancelled(t) ==
    /\ pc[t] = "running" /\ stack[t] # <<>>
    /\ Top(t).pc = "publish"
    /\ LET fr == Top(t)
           a == fr.access
           m == fr.manifest
           remote == RemoteManifest(m)
           cmd == PublishCmd(m)
           answer == IF cmd = "vlob_create" THEN VlobCreateStatus(a)
                     ELSE VlobUpdateStatus(a, remote.version)
       IN  /\ answer = "ok"
           /\ vlobs' = [vlobs EXCEPT ![a] =
                           [version |-> IF cmd = "vlob_create" THEN 1 ELSE remote.version,
                            blob |-> remote]]
           /\ Stored(store)
           /\ Raise(t, [Step(cmd, a, t, "cancelled") EXCEPT !.version = remote.version])
    /\ UNCHANGED <<createdOk, blockstore, nBlocks, nEnv, ofVars, pgVars, ntVars, omVars,
                   bcVars, gtVars, ctVars, mpVars>>

\* ------------------------------------------------------------------ environment
EnvStep(a) == [NoLast EXCEPT !.op = "env"]

\* A flush of an opened file: a new dirty block is appended to the file's local
\* manifest, which then needs a sync.
LocalWrite(f) ==
    /\ is_file_manifest(store[f])
    /\ nEnv < MaxEnv
    /\ nEnv' = nEnv + 1
    /\ nBlocks' = nBlocks + 1
    /\ Stored([store EXCEPT ![f].dirty_blocks = Append(@, nBlocks + 1),
                            ![f].need_sync = TRUE])
    /\ last' = EnvStep(f)
    /\ prev' = NoPrev
    /\ UNCHANGED <<vlobs, blockstore, lockOwner, lockQueue, pc, call, stack,
                   createdOk, ofVars, pgVars, ntVars, omVars, bcVars, gtVars, ctVars, mpVars>>

\* A change of a folder (a child created, removed or renamed): it needs a sync.
LocalTouch(d) ==
    /\ is_folder_manifest(store[d])
    /\ ~store[d].need_sync
    /\ nEnv < MaxEnv
    /\ nEnv' = nEnv + 1
    /\ Stored([store EXCEPT ![d].need_sync = TRUE])
    /\ last' = EnvStep(d)
    /\ prev' = NoPrev
    /\ UNCHANGED <<vlobs, blockstore, lockOwner, lockQueue, pc, call, stack,
                   createdOk, nBlocks, ofVars, pgVars, ntVars, omVars, bcVars, gtVars, ctVars, mpVars>>

\* Another device publishes the next version of an entry.
RemoteUpdate(e) ==
    /\ vlobs[e].version >= 1
    /\ nEnv < MaxEnv
    /\ nEnv' = nEnv + 1
    /\ vlobs' = [vlobs EXCEPT ![e] =
                   [version |-> @.version + 1,
                    blob |-> [@.blob EXCEPT !.version = vlobs[e].version + 1,
                                            !.author = "other"]]]
    /\ last' = EnvStep(e)
    /\ prev' = NoPrev
    /\ UNCHANGED <<store, hiBase, blockstore, lockOwner, lockQueue, pc, call, stack,
                   createdOk, nBlocks, ofVars, pgVars, ntVars, omVars, bcVars, gtVars, ctVars, mpVars>>

\* An outdated entry is read again: its last remote version is fetched and stored.
Fetch(e) ==
    /\ store[e] = NoManifest
    /\ vlobs[e].version >= 1
    /\ Stored([store EXCEPT ![e] = remote_to_local_manifest(vlobs[e].blob)])
    /\ last' = EnvStep(e)
    /\ prev' = NoPrev
    /\ UNCHANGED <<vlobs, blockstore, lockOwner, lockQueue, pc, call, stack,
                   createdOk, nBlocks, nEnv, ofVars, pgVars, ntVars, omVars, bcVars, gtVars, ctVars, mpVars>>

InitSync ==
    /\ store = [e \in Entries |-> NewManifest(e)]
    /\ vlobs = [e \in Entries |-> NoVlob]
    /\ blockstore = {}
    /\ lockOwner = NoTask
    /\ lockQueue = <<>>
    /\ pc = [t \in Tasks |-> "idle"]
    /\ call = [t \in Tasks |-> NoCall]
    /\ stack = [t \in Tasks |-> <<>>]
    /\ last = NoLast
    /\ createdOk = [e \in Entries |-> 0]
    /\ hiBase = [e \in Entries |-> 0]
    /\ prev = NoPrev
    /\ nBlocks = 0
    /\ nEnv = 0

\* ------------------------------------------------------------------ OpenedFile
Contents == {<<>>, <<"a">>, <<"a", "b">>}

NoCmd == [kind |-> "none", offset |-> 0, buffer |-> <<>>, length |-> 0,
          file_size |-> 0, ident |-> 0]
WriteCmd(offset, buffer) == [NoCmd EXCEPT !.kind = "write", !.offset = offset,
                                          !.buffer = buffer]
TruncateCmd(length) == [NoCmd EXCEPT !.kind = "truncate", !.length = length]
\* Two MarkerCmd objects are told apart by identity (`x is marker`): ident.
MarkerCmd(file_size, ident) == [NoCmd EXCEPT !.kind = "marker",
                                             !.file_size = file_size, !.ident = ident]

\* Mutant: a marker in the log is not seen.
HasMarkerNever(cmds) == FALSE

\* opened_file.py lines 235 and 254: any(isinstance(x, MarkerCmd) for x in cmds).
HasMarker(cmds) == \E i \in 1..Len(cmds) : cmds[i].kind = "marker"

\* of_last: whether the last call recorded a command ("recorded"), did nothing
\* ("ignored", or "not_shrunk" for a truncate), failed ("marker_error",
\* "assert_error") or dropped commands ("dropped", with their number).
OfStep(op, n) == [op |-> op, dropped |-> n]

\* of_after after a call: the commands recorded since create_marker while its
\* marker is out, nothing once drop_until_marker is past.
After(cmds) == IF of_marker # 0 THEN cmds ELSE <<>>

\* Mutant: an offset above the size is kept.
write_offset_unchecked(offset) == IF offset = -1 THEN of_size ELSE offset

\* opened_file.py lines 123-124: where a write is recorded.
write_offset(offset) == IF offset = -1 \/ offset > of_size THEN of_size ELSE offset

\* opened_file.py lines 120-129.
write(content, offset) ==
    /\ Len(of_cmds) < MaxCmds
    /\ IF content = <<>>
       THEN /\ UNCHANGED <<of_size, of_cmds>>
            /\ of_after' = After(of_after)
            /\ of_last' = OfStep("ignored", 0)
       ELSE LET off == write_offset(offset)
                end == off + Len(content)
            IN  /\ end <= MaxSize
                /\ of_cmds' = Append(of_cmds, WriteCmd(off, content))
                /\ of_size' = IF end > of_size THEN end ELSE of_size
                /\ of_after' = After(Append(of_after, WriteCmd(off, content)))
                /\ of_last' = OfStep("recorded", 0)
    /\ UNCHANGED <<of_marker, of_nextMarker, syncVars, pgVars, ntVars, omVars, bcVars, gtVars, ctVars, mpVars>>

\* opened_file.py lines 131-135.
truncate(length) ==
    /\ Len(of_cmds) < MaxCmds
    /\ IF length < of_size
       THEN /\ of_cmds' = Append(of_cmds, TruncateCmd(length))
            /\ of_size' = length
            /\ of_after' = After(Append(of_after, TruncateCmd(length)))
            /\ of_last' = OfStep("recorded", 0)
       ELSE /\ UNCHANGED <<of_size, of_cmds>>
            /\ of_after' = After(of_after)
            /\ of_last' = OfStep("not_shrunk", 0)
    /\ UNCHANGED <<of_marker, of_nextMarker, syncVars, pgVars, ntVars, omVars, bcVars, gtVars, ctVars, mpVars>>

\* opened_file.py lines 234-240.
create_marker ==
    /\ Len(of_cmds) < MaxCmds
    /\ IF HasMarker(of_cmds)
       THEN /\ UNCHANGED <<of_cmds, of_marker, of_nextMarker>>
            /\ of_after' = After(of_after)
            /\ of_last' = OfStep("marker_error", 0)
       ELSE /\ of_cmds' = Append(of_cmds, MarkerCmd(of_size, of_nextMarker))
            /\ of_marker' = of_nextMarker
            /\ of_nextMarker' = 3 - of_nextMarker
            /\ of_after' = <<>>
            /\ of_last' = OfStep("recorded", 0)
    /\ UNCHANGED <<of_size, syncVars, pgVars, ntVars, omVars, bcVars, gtVars, ctVars, mpVars>>

\* Mutant: once the marker is found the predicate keeps answering True.
RECURSIVE dropwhile_all(_, _, _)
dropwhile_all(xs, ident, found) ==
    IF xs = <<>> THEN [rest |-> <<>>, found |-> found]
    ELSE dropwhile_all(Tail(xs), ident,
                       found \/ (Head(xs).kind = "marker" /\ Head(xs).ident = ident))

\* opened_file.py lines 243-252: dropwhile(drop_until_marker_is_found, cmds), with
\* the predicate's marker_found flag.
RECURSIVE dropwhile_marker(_, _, _)
dropwhile_marker(xs, ident, found) ==
    IF xs = <<>> THEN [rest |-> <<>>, found |-> found]
    ELSE IF Head(xs).kind = "marker" /\ Head(xs).ident = ident
         THEN dropwhile_marker(Tail(xs), ident, TRUE)
         ELSE IF ~found
              THEN dropwhile_marker(Tail(xs), ident, found)
              ELSE [rest |-> xs, found |-> found]

\* opened_file.py lines 242-257, called with the marker create_marker returned.
drop_until_marker(marker) ==
    /\ marker # 0
    /\ LET r == dropwhile_marker(of_cmds, marker, FALSE)
       IN  IF r.found /\ ~HasMarker(r.rest)
           THEN /\ of_cmds' = r.rest
                /\ of_last' = OfStep("dropped", Len(of_cmds) - Len(r.rest))
           ELSE /\ of_cmds' = of_cmds
                /\ of_last' = OfStep("assert_error", 0)
    /\ of_marker' = 0
    /\ UNCHANGED <<of_size, of_nextMarker, of_after, syncVars, pgVars, ntVars, omVars, bcVars, gtVars, ctVars, mpVars>>

\* opened_file.py lines 98-101, for a manifest of size manifest_size.
need_flush(manifest_size) ==
    \/ manifest_size # of_size
    \/ \E i \in 1..Len(of_cmds) : of_cmds[i].kind = "write"

\* opened_file.py lines 178-180: in_ram, one RamBuffer per WriteCmd of the log.
RECURSIVE in_ram(_)
in_ram(cmds) ==
    IF cmds = <<>> THEN <<>>
    ELSE (IF Head(cmds).kind = "write"
          THEN <<[start |-> Head(cmds).offset,
                  end |-> Head(cmds).offset + Len(Head(cmds).buffer),
                  data |-> Head(cmds).buffer]>>
          ELSE <<>>) \o in_ram(Tail(cmds))

\* buffer_ordering: the byte at position p of the overlay of buffers in list order
\* (the last buffer covering p wins), "none" where no buffer covers p.
ByteAt(buffers, p) ==
    LET covering == {i \in 1..Len(buffers) : buffers[i].start <= p /\ p < buffers[i].end}
    IN  IF covering = {} THEN "none"
        ELSE LET i == CHOOSE i \in covering : \A j \in covering : j <= i
             IN  buffers[i].data[p - buffers[i].start + 1]

\* The end of the contiguous span of the overlay that starts at p, below hi.
RECURSIVE SpanEnd(_, _, _)
SpanEnd(buffers, p, hi) ==
    IF p >= hi \/ ByteAt(buffers, p) = "none" THEN p ELSE SpanEnd(buffers, p + 1, hi)

\* The maximal contiguous spans of the overlay within [p, hi), with their bytes.
RECURSIVE Spans(_, _, _)
Spans(buffers, p, hi) ==
    IF p >= hi THEN <<>>
    ELSE IF ByteAt(buffers, p) = "none" THEN Spans(buffers, p + 1, hi)
    ELSE LET e == SpanEnd(buffers, p, hi)
         IN  <<[start |-> p, end |-> e,
                data |-> [i \in 1..(e - p) |-> ByteAt(buffers, p + i - 1)]]>>
                 \o Spans(buffers, e, hi)

\* buffer_ordering.merge_buffers_with_limits: the overlay clipped to [lo, hi).
merge_buffers_with_limits(buffers, lo, hi) ==
    LET spaces == Spans(buffers, lo, hi)
    IN  [spaces |-> spaces,
         start |-> IF spaces = <<>> THEN lo ELSE spaces[1].start,
         size |-> IF spaces = <<>> THEN 0 ELSE spaces[Len(spaces)].end - spaces[1].start]

\* Mutant: the size asked for is not capped by the size of the file.
read_size_uncapped(size, offset) == IF size < 0 THEN of_size ELSE size

\* opened_file.py lines 197-200.
read_size(size, offset) ==
    LET size1 == IF size < 0 THEN of_size ELSE size
    IN  IF offset + size1 > of_size THEN of_size - offset ELSE size1

\* opened_file.py lines 193-211, for a manifest without blocks: the space read, or
\* the AssertionError of lines 203-205.
get_read_map(size, offset) ==
    IF offset >= of_size THEN [start |-> offset, end |-> offset, data |-> <<>>]
    ELSE LET size2 == read_size(size, offset)
             merged == merge_buffers_with_limits(in_ram(of_cmds), offset, offset + size2)
         IN  IF ~(Len(merged.spaces) <= 1 /\ merged.size <= size2 /\ merged.start = offset)
             THEN [start |-> offset, end |-> offset, data |-> <<"AssertionError">>]
             ELSE IF merged.spaces # <<>> THEN merged.spaces[1]
             ELSE [start |-> offset, end |-> offset, data |-> <<>>]

\* buffer_ordering.merge_buffers: the overlay of buffers in list order as maximal
\* contiguous spans.
merge_buffers(buffers) ==
    LET ends == {buffers[i].end : i \in 1..Len(buffers)}
        hi == IF ends = {} THEN 0 ELSE CHOOSE e \in ends : \A x \in ends : x <= e
    IN  [spaces |-> Spans(buffers, 0, hi)]

\* opened_file.py lines 259-276: self.size and one buffer per contiguous span of the
\* merged in_ram buffers, with its bytes.
get_flush_map ==
    [size |-> of_size, buffers |-> merge_buffers(in_ram(of_cmds)).spaces]

\* A block access of a manifest as a buffer of the read and sync maps.
BlockAccess(offset, size) ==
    [start |-> offset, end |-> offset + size, data |-> [i \in 1..size |-> "stored"]]

\* The manifests the maps are asked for: at most one block, from 0, and at most one
\* dirty block.
SyncManifests ==
    [blocks : {<<>>} \cup {<<BlockAccess(0, n)>> : n \in 1..MaxSize + 1},
     dirty_blocks : {<<>>} \cup {<<BlockAccess(o, 1)>> : o \in 0..MaxSize}]

\* The manifest m goes with the file: m and the log hold every byte of it.
HoldsFile(m) ==
    \A p \in 0..(of_size - 1) :
        ByteAt(m.blocks \o m.dirty_blocks \o in_ram(of_cmds), p) # "none"

\* opened_file.py lines 137-175 (inf and -inf of lines 141-142: no offset at all).
get_not_synced_bounds(manifest, placeholder) ==
    IF placeholder THEN [start |-> 0, end |-> of_size]
    ELSE LET bufs == manifest.dirty_blocks \o in_ram(of_cmds)
             starts == {bufs[i].start : i \in 1..Len(bufs)}
             ends == {bufs[i].end : i \in 1..Len(bufs)}
             start == IF starts = {} THEN 0
                      ELSE CHOOSE x \in starts : \A y \in starts : x <= y
             resized == /\ manifest.blocks # <<>>
                        /\ manifest.blocks[Len(manifest.blocks)].end # of_size
             end1 == IF resized THEN of_size
                     ELSE IF ends = {} THEN 0
                     ELSE CHOOSE x \in ends : \A y \in ends : y <= x
         IN  [start |-> start, end |-> IF end1 > of_size THEN of_size ELSE end1]

\* Mutant: the end of the bounds is used as it is.
sync_map_end_unaligned(end) == end

\* opened_file.py lines 216-221: the end of the sync map.
sync_map_end(end) ==
    IF end % block_size # 0
    THEN LET aligned_end == end + block_size - (end % block_size)
         IN  IF aligned_end < of_size THEN aligned_end ELSE of_size
    ELSE end

\* buffer_ordering.merge_buffers_with_limits_and_alignment: the spans of the overlay
\* within [lo, hi), each widened to the blocks it touches and cut at hi.
RECURSIVE AlignedSpans(_, _, _)
AlignedSpans(buffers, p, hi) ==
    IF p >= hi THEN <<>>
    ELSE IF ByteAt(buffers, p) = "none" THEN AlignedSpans(buffers, p + 1, hi)
    ELSE LET e == SpanEnd(buffers, p, hi)
             up == IF e % block_size = 0 THEN e ELSE e + block_size - (e % block_size)
             end == IF up < hi THEN up ELSE hi
         IN  <<[start |-> p - (p % block_size), end |-> end]>>
                 \o AlignedSpans(buffers, end, hi)

merge_buffers_with_limits_and_alignment(buffers, lo, hi) ==
    [spaces |-> AlignedSpans(buffers, lo, hi)]

\* opened_file.py lines 213-232: the spans of the sync map.
get_sync_map(manifest, placeholder) ==
    LET bounds == get_not_synced_bounds(manifest, placeholder)
        aligned_start == bounds.start - (bounds.start % block_size)
        end == sync_map_end(bounds.end)
        blocks == manifest.blocks \o manifest.dirty_blocks \o in_ram(of_cmds)
    IN  merge_buffers_with_limits_and_alignment(blocks, aligned_start, end).spaces

\* buffer_ordering: the start of a merge within limits is the start of the first
\* buffer left once the buffers are cut to [lo, hi), lo itself when the data reaches
\* down to it (get_read_map asserts merged.start == offset on it, lines 204-206).
merged_start(buffers, lo, hi) ==
    LET spaces == merge_buffers_with_limits_and_alignment(buffers, lo, hi).spaces
    IN  IF spaces = <<>> THEN lo ELSE Max(lo, spaces[1].start)

\* opened_file.py lines 227-228: the two assertions of get_sync_map.
get_sync_map_asserts(manifest, placeholder) ==
    LET bounds == get_not_synced_bounds(manifest, placeholder)
        aligned_start == bounds.start - (bounds.start % block_size)
        end == sync_map_end(bounds.end)
        blocks == manifest.blocks \o manifest.dirty_blocks \o in_ram(of_cmds)
    IN  /\ Len(get_sync_map(manifest, placeholder)) <= 1
        /\ merged_start(blocks, aligned_start, end) = 0

InitOF ==
    /\ of_size = 0
    /\ of_cmds = <<>>
    /\ of_marker = 0
    /\ of_nextMarker = 1
    /\ of_after = <<>>
    /\ of_last = OfStep("none", 0)

NextOpenedFile ==
    \/ \E content \in Contents, offset \in -1..MaxSize : write(content, offset)
    \/ \E length \in 0..MaxSize + 1 : truncate(length)
    \/ create_marker
    \/ drop_until_marker(of_marker)

\* An OpenedFile with a log of at most MaxPending commands.
NextSyncMap ==
    \/ \E content \in Contents, offset \in -1..MaxSize :
          Len(of_cmds) < MaxPending /\ write(content, offset)
    \/ \E length \in 0..MaxSize + 1 :
          Len(of_cmds) < MaxPending /\ truncate(length)
    \/ Len(of_cmds) < MaxPending /\ create_marker
    \/ drop_until_marker(of_marker)

\* An OpenedFile on which only write and truncate are called.
NextOverlay ==
    \/ \E content \in Contents, offset \in -1..MaxSize : write(content, offset)
    \/ \E length \in 0..MaxSize + 1 : truncate(length)

\* ------------------------------------------------------------------ block component
Clients == {"c1", "c2"}
Authors == {"alice", "zack"}
BlockIds == {"b1", "b2"}
BlockDatas == {<<"x">>, <<"y", "z">>}

\* q_user_can_write_vlob: alice has the write right on the realm, zack has not.
has_access(author) == author = "alice"

NoPgCall == [pc |-> "idle", block_id |-> "none", author |-> "none", block |-> <<>>,
             result |-> "none", again |-> FALSE, meta0 |-> {}, data0 |-> {}]

MetaRows(id) == {row \in pg_block : row.block_id = id}
DataRows(id) == {row \in pg_block_data : row.block_id = id}

\* Mutant: the unicity of the block id is not looked at.
block_exists_never(id) == FALSE

\* block.py lines 76-81 and 170: EXISTS(q_block(block_id)).
block_exists(id) == MetaRows(id) # {}

PgFinish(c, res) ==
    pg_call' = [pg_call EXCEPT ![c].pc = "done", ![c].result = res]

\* A client calls PGBlockComponent.create (block.py lines 146-153). again: the block
\* id is already stored with these bytes and the author may write.
pg_create_call(c, id, author, block) ==
    /\ pg_call[c].pc \in {"idle", "done"}
    /\ pg_call' = [pg_call EXCEPT ![c] =
          [pc |-> "check", block_id |-> id, author |-> author, block |-> block,
           result |-> "none",
           again |-> /\ MetaRows(id) # {}
                     /\ DataRows(id) = {[block_id |-> id, data |-> block]}
                     /\ has_access(author),
           meta0 |-> MetaRows(id), data0 |-> DataRows(id)]]
    /\ UNCHANGED <<pg_block, pg_block_data, pg_maintenance, syncVars, ofVars, ntVars, omVars, bcVars, gtVars, ctVars, mpVars>>

\* block.py lines 155-171: the realm's status, then the write right and the unicity.
pg_create_check(c) ==
    /\ pg_call[c].pc = "check"
    /\ IF pg_maintenance THEN PgFinish(c, "in_maintenance")
       ELSE IF ~has_access(pg_call[c].author) THEN PgFinish(c, "not_allowed")
       ELSE IF block_exists(pg_call[c].block_id) THEN PgFinish(c, "already_exists")
       ELSE pg_call' = [pg_call EXCEPT ![c].pc = "store"]
    /\ UNCHANGED <<pg_block, pg_block_data, pg_maintenance, syncVars, ofVars, ntVars, omVars, bcVars, gtVars, ctVars, mpVars>>

\* block.py lines 234-245, PGBlockStoreComponent.create: the row is inserted; a row
\* with this id already there (UniqueViolationError) is left as it is.
blockstore_create(id, block) ==
    IF DataRows(id) = {}
    THEN pg_block_data \cup {[block_id |-> id, data |-> block]}
    ELSE pg_block_data

\* block.py line 182.
pg_create_store(c) ==
    /\ pg_call[c].pc = "store"
    /\ pg_block_data' = blockstore_create(pg_call[c].block_id, pg_call[c].block)
    /\ pg_call' = [pg_call EXCEPT ![c].pc = "insert"]
    /\ UNCHANGED <<pg_block, pg_maintenance, syncVars, ofVars, ntVars, omVars, bcVars, gtVars, ctVars, mpVars>>

\* block.py lines 185-197: the metadata row is inserted and the transaction commits;
\* a row another call inserted meanwhile makes the insert fail.
pg_create_insert(c) ==
    /\ pg_call[c].pc = "insert"
    /\ IF MetaRows(pg_call[c].block_id) = {}
       THEN /\ pg_block' = pg_block \cup
                   {[block_id |-> pg_call[c].block_id, author |-> pg_call[c].author,
                     size |-> Len(pg_call[c].block)]}
            /\ PgFinish(c, "ok")
       ELSE /\ pg_block' = pg_block
            /\ PgFinish(c, "unique_violation")
    /\ UNCHANGED <<pg_block_data, pg_maintenance, syncVars, ofVars, ntVars, omVars, bcVars, gtVars, ctVars, mpVars>>

\* The realm enters or leaves maintenance.
pg_set_maintenance(b) ==
    /\ pg_maintenance # b
    /\ pg_maintenance' = b
    /\ UNCHANGED <<pg_block, pg_block_data, pg_call, syncVars, ofVars, ntVars, omVars, bcVars, gtVars, ctVars, mpVars>>

InitPG ==
    /\ pg_block = {}
    /\ pg_block_data = {}
    /\ pg_maintenance = FALSE
    /\ pg_call = [c \in Clients |-> NoPgCall]

NextBlock ==
    \/ \E c \in Clients, id \in BlockIds, author \in Authors, block \in BlockDatas :
          pg_create_call(c, id, author, block)
    \/ \E c \in Clients : pg_create_check(c)
    \/ \E c \in Clients : pg_create_store(c)
    \/ \E c \in Clients : pg_create_insert(c)
    \/ \E b \in BOOLEAN : pg_set_maintenance(b)

\* ------------------------------------------------------------------ publish requests
Beacons == {"beacon1", "beacon2"}
BeaconKeys == {"key1", "key2"}
\* The values of sync's `notify` argument: lists of (beacon_id, beacon_key).
Notifies ==
    {<<>>} \cup {<<x>> : x \in Beacons \X BeaconKeys}
           \cup {<<x, y>> : x \in Beacons \X BeaconKeys, y \in Beacons \X BeaconKeys}

\* pickle.dumps, sign and sym_encrypt; syncer.py lines 4-12: when parsec.utils does
\* not provide them, sign and sym_encrypt return the content as it is.
pickle_dumps(msg) == [pickled |-> msg]
sign(key, content) == IF nt_crypto THEN [signed_by |-> key, content |-> content]
                      ELSE content
sym_encrypt(key, content) == IF nt_crypto THEN [key |-> key, content |-> content]
                             ELSE content

\* syncer.py lines 34-41.
RECURSIVE build_beacon_messages(_, _)
build_beacon_messages(notify, msg) ==
    IF notify = <<>> THEN <<>>
    ELSE LET signed_msg == sign("device_signkey", pickle_dumps(msg))
         IN  <<<<Head(notify)[1], sym_encrypt(Head(notify)[2], signed_msg)>>>>
                 \o build_beacon_messages(Tail(notify), msg)

\* syncer.py lines 98-99: the payload of _backend_vlob_create.
backend_vlob_create_payload(id, rts, wts, blob, notify) ==
    [cmd |-> "vlob_create", id |-> id, wts |-> wts, rts |-> rts, blob |-> blob]

\* syncer.py lines 104-111: the payload of _backend_vlob_update.
backend_vlob_update_payload(id, wts, version, blob, notify) ==
    [cmd |-> "vlob_update", id |-> id, wts |-> wts, version |-> version, blob |-> blob]

NoArgs == [access |-> "none", notify |-> <<>>, manifest |-> NoManifest]

\* syncer.py lines 116-118: _sync_nolock(access, recursive, notify) builds notify_msgs
\* for an entry whose manifest needs a sync.
publish_build(a, notify, m, crypto) ==
    /\ nt_pc \in {"idle", "sent"}
    /\ nt_crypto' = crypto
    /\ m.type = (IF a \in Files THEN "file" ELSE "folder")
    /\ nt_args' = [access |-> a, notify |-> notify, manifest |-> m]
    \* built with the sign and sym_encrypt of this run
    /\ nt_msgs' = (build_beacon_messages(notify, [id |-> a]))'
    /\ nt_payload' = <<>>
    /\ nt_pc' = "built"
    /\ UNCHANGED <<syncVars, ofVars, pgVars, omVars, bcVars, gtVars, ctVars, mpVars>>

\* syncer.py lines 148-162 and 187-201: the remote manifest is ciphered and handed to
\* _backend_vlob_create or _backend_vlob_update with notify=notify_msgs.
publish_send ==
    /\ nt_pc = "built"
    /\ LET a == nt_args.access
           m == nt_args.manifest
           remote == RemoteManifest(m)
           ciphered == sym_encrypt(a, sign("device_signkey", pickle_dumps(remote)))
       IN  nt_payload' =
             IF PublishCmd(m) = "vlob_create"
             THEN backend_vlob_create_payload(a, a, a, ciphered, nt_msgs)
             ELSE backend_vlob_update_payload(a, a, remote.version, ciphered, nt_msgs)
    /\ nt_pc' = "sent"
    /\ UNCHANGED <<nt_crypto, nt_args, nt_msgs, syncVars, ofVars, pgVars, omVars, bcVars, gtVars, ctVars, mpVars>>

\* The manifests a publish starts from: placeholders and resolved ones, with or
\* without a dirty block.
PublishManifests ==
    {[NewManifest(e) EXCEPT !.dirty_blocks = d] : e \in Entries, d \in {<<>>, <<1>>}}
    \cup {[NewManifest(e) EXCEPT !.is_placeholder = FALSE, !.base_version = 1,
                                 !.dirty_blocks = d] : e \in Entries, d \in {<<>>, <<1>>}}

InitNT ==
    /\ nt_crypto = TRUE
    /\ nt_pc = "idle"
    /\ nt_args = NoArgs
    /\ nt_msgs = <<>>
    /\ nt_payload = <<>>

NextPublish ==
    \/ \E a \in Entries, notify \in Notifies, m \in PublishManifests,
          crypto \in BOOLEAN : publish_build(a, notify, m, crypto)
    \/ publish_send

\* ------------------------------------------------------------------ sync of an opened file
\* The file f is opened: write is called on its OpenedFile while no sync runs.
write_outside_sync(content, offset) ==
    /\ \A t \in Tasks : pc[t] # "running"
    /\ write(content, offset)

NextSyncOpened ==
    \/ \E t \in Tasks : sync(t)
    \/ \E t \in Tasks, a \in Files : sync_enter(t, a, RecTrue)
    \/ \E t \in Tasks : sync_nolock_start(t)
    \/ \E t \in Tasks : sync_nolock_block_post(t)
    \/ \E t \in Tasks : sync_nolock_publish(t)
    \/ \E f \in Files : LocalWrite(f)
    \/ \E content \in Contents, offset \in -1..MaxSize :
          write_outside_sync(content, offset)

\* ------------------------------------------------------------------ OpenedFilesManager
\* The ids of accesses: P is a placeholder, R the id it is resolved to, N the id of
\* another entry.
Ids == {"P", "R", "N"}
EntryOf(id) == IF id \in {"P", "R"} THEN "entry1" ELSE "entry2"
NoFd == [opened |-> FALSE, base_version |-> 0]
NoId == "none"

OmStep(op, id, res) == [op |-> op, id |-> id, result |-> res]

\* opened_file.py lines 291-298: the key under which the file of id is stored.
file_lookup(id) ==
    IF om_opened[id].opened THEN id
    ELSE IF om_resolved[id] # NoId /\ om_opened[om_resolved[id]].opened
    THEN om_resolved[id]
    ELSE NoId

\* opened_file.py lines 300-307.
open_file(id, base_version) ==
    /\ id \in om_known
    /\ LET key == file_lookup(id)
       IN  IF key = NoId
           THEN /\ om_opened' = [om_opened EXCEPT ![id] =
                                    [opened |-> TRUE, base_version |-> base_version]]
                /\ om_last' = OmStep("open_file", id, "created")
           ELSE /\ om_opened' = om_opened
                /\ om_last' = OmStep("open_file", id,
                       IF om_opened[key].base_version = base_version
                       THEN "existing" ELSE "AssertionError")
    /\ UNCHANGED <<om_resolved, om_known, syncVars, ofVars, pgVars, ntVars, bcVars, gtVars, ctVars, mpVars>>

\* opened_file.py lines 309-319.
close_file(id) ==
    /\ id \in om_known
    /\ IF om_opened[id].opened
       THEN /\ om_opened' = [om_opened EXCEPT ![id] = NoFd]
            /\ om_resolved' = [k \in Ids |->
                                 IF om_resolved[k] = id THEN NoId ELSE om_resolved[k]]
            /\ om_last' = OmStep("close_file", id, "closed")
       ELSE IF om_resolved[id] = NoId
       THEN /\ UNCHANGED <<om_opened, om_resolved>>
            /\ om_last' = OmStep("close_file", id, "KeyError")
       ELSE /\ om_resolved' = [om_resolved EXCEPT ![id] = NoId]
            /\ IF om_opened[om_resolved[id]].opened
               THEN /\ om_opened' = [om_opened EXCEPT ![om_resolved[id]] = NoFd]
                    /\ om_last' = OmStep("close_file", id, "closed")
               ELSE /\ om_opened' = om_opened
                    /\ om_last' = OmStep("close_file", id, "KeyError")
    /\ UNCHANGED <<om_known, syncVars, ofVars, pgVars, ntVars, bcVars, gtVars, ctVars, mpVars>>

\* opened_file.py lines 321-328; from then on callers may hold the resolved id.
resolve_placeholder_access(placeholder, resolved) ==
    /\ placeholder \in om_known
    /\ om_known' = om_known \cup {resolved}
    /\ IF om_opened[placeholder].opened
       THEN /\ om_opened' = [om_opened EXCEPT ![placeholder] = NoFd,
                                              ![resolved] = om_opened[placeholder]]
            /\ om_resolved' = [om_resolved EXCEPT ![placeholder] = resolved]
            /\ om_last' = OmStep("resolve_placeholder_access", placeholder, "moved")
       ELSE /\ UNCHANGED <<om_opened, om_resolved>>
            /\ om_last' = OmStep("resolve_placeholder_access", placeholder, "nothing")
    /\ UNCHANGED <<syncVars, ofVars, pgVars, ntVars, bcVars, gtVars, ctVars, mpVars>>

\* opened_file.py lines 330-337.
move_modifications(old, new) ==
    /\ old \in om_known /\ new \in om_known /\ old # new
    /\ IF om_opened[old].opened
       THEN /\ om_opened' = [om_opened EXCEPT ![old] = NoFd, ![new] = om_opened[old]]
            /\ om_last' = OmStep("move_modifications", old, "moved")
       ELSE /\ om_opened' = om_opened
            /\ om_last' = OmStep("move_modifications", old, "nothing")
    /\ UNCHANGED <<om_resolved, om_known, syncVars, ofVars, pgVars, ntVars, bcVars, gtVars, ctVars, mpVars>>

InitOM ==
    /\ om_opened = [id \in Ids |-> NoFd]
    /\ om_resolved = [id \in Ids |-> NoId]
    /\ om_known = {"P", "N"}
    /\ om_last = OmStep("none", NoId, "none")

NextOpenedFiles ==
    \/ \E id \in Ids, base_version \in 0..1 : open_file(id, base_version)
    \/ \E id \in Ids : close_file(id)
    \/ resolve_placeholder_access("P", "R")
    \/ \E old \in Ids, new \in Ids : move_modifications(old, new)

\* ------------------------------------------------------------------ BackendCmds
\* BackendCmds.ping, the pattern of every command of the class: dump the request,
\* send it, receive a response, load it, test its status.
Pings == {"a", "b"}
Statuses == {"ok", "invalid_msg_format", "not_found"}

\* What a command went through and how it ended (history): the serializer rejected
\* the request, the transport failed, the serializer rejected the response, the status
\* of a response it accepted, the exception raised ("none": the command returned
\* `value`), and the task whose request the response read was an answer to.
NoBcLast == [task |-> "none", req_rejected |-> FALSE, transport_error |-> FALSE,
             rep_rejected |-> FALSE, status |-> "none", raised |-> "none",
             value |-> "none", returned |-> FALSE, answer_to |-> "none"]

\* cmds.py lines 63-68 and 83-91: _req_dump then _transport_send.
cmd_send(t, ping, dumps, sends) ==
    /\ bc_pc[t] = "idle"
    /\ Len(bc_sent) + Len(bc_recv) < MaxInFlight
    /\ IF ~dumps
       THEN /\ bc_last' = [NoBcLast EXCEPT !.task = t, !.req_rejected = TRUE,
                                           !.raised = "BackendCmdsInvalidRequest"]
            /\ UNCHANGED <<bc_pc, bc_req, bc_sent>>
       ELSE IF ~sends
       THEN /\ bc_last' = [NoBcLast EXCEPT !.task = t, !.transport_error = TRUE,
                                           !.raised = "BackendNotAvailable"]
            /\ UNCHANGED <<bc_pc, bc_req, bc_sent>>
       ELSE /\ bc_pc' = [bc_pc EXCEPT ![t] = "sent"]
            /\ bc_req' = [bc_req EXCEPT ![t] = ping]
            /\ bc_sent' = Append(bc_sent, [from |-> t, ping |-> ping])
            /\ bc_last' = [NoBcLast EXCEPT !.task = t]
    /\ UNCHANGED <<bc_recv, syncVars, ofVars, pgVars, ntVars, omVars, gtVars, ctVars, mpVars>>

\* The backend answers the requests of a connection in the order they came;
\* wellformed: the response is one the serializer of the command accepts.
backend_answers(status, wellformed) ==
    /\ bc_sent # <<>>
    /\ bc_sent' = Tail(bc_sent)
    /\ bc_recv' = Append(bc_recv, [answer_to |-> Head(bc_sent).from,
                                   pong |-> Head(bc_sent).ping,
                                   status |-> status, wellformed |-> wellformed])
    /\ bc_last' = NoBcLast
    /\ UNCHANGED <<bc_pc, bc_req, syncVars, ofVars, pgVars, ntVars, omVars, gtVars, ctVars, mpVars>>

\* Mutant: every response the serializer accepts is taken as a success.
status_raises_never(status) == "none"

\* cmds.py lines 77-79 and 117-118: the exception a status leads to.
status_raises(status) ==
    IF status = "invalid_msg_format" THEN "BackendCmdsInvalidRequest"
    ELSE IF status # "ok" THEN "BackendCmdsBadResponse"
    ELSE "none"

\* cmds.py lines 71-80 and 94-105, then lines 117-119: _transport_recv, _rep_load, the
\* status test and the return. transport.recv hands over the next response of the
\* connection, whichever task asks.
cmd_recv(t, receives) ==
    /\ bc_pc[t] = "sent"
    /\ bc_pc' = [bc_pc EXCEPT ![t] = "idle"]
    /\ bc_req' = [bc_req EXCEPT ![t] = "none"]
    /\ IF ~receives
       THEN /\ bc_last' = [NoBcLast EXCEPT !.task = t, !.transport_error = TRUE,
                                           !.raised = "BackendNotAvailable"]
            /\ bc_recv' = bc_recv
       ELSE /\ bc_recv # <<>>
            /\ bc_recv' = Tail(bc_recv)
            /\ LET rep == Head(bc_recv)
               IN  bc_last' =
                     IF ~rep.wellformed
                     THEN [NoBcLast EXCEPT !.task = t, !.rep_rejected = TRUE,
                                           !.answer_to = rep.answer_to,
                                           !.raised = "BackendCmdsInvalidResponse"]
                     ELSE [NoBcLast EXCEPT !.task = t, !.status = rep.status,
                                           !.answer_to = rep.answer_to,
                                           !.raised = status_raises(rep.status),
                                           !.returned = status_raises(rep.status) = "none",
                                           !.value = IF status_raises(rep.status) = "none"
                                                     THEN rep.pong ELSE "none"]
    /\ UNCHANGED <<bc_sent, syncVars, ofVars, pgVars, ntVars, omVars, gtVars, ctVars, mpVars>>

InitBC ==
    /\ bc_pc = [t \in Tasks |-> "idle"]
    /\ bc_req = [t \in Tasks |-> "none"]
    /\ bc_sent = <<>>
    /\ bc_recv = <<>>
    /\ bc_last = NoBcLast

NextBackendCmds ==
    \/ \E t \in Tasks, ping \in Pings, dumps \in BOOLEAN, sends \in BOOLEAN :
           cmd_send(t, ping, dumps, sends)
    \/ \E status \in Statuses, wellformed \in BOOLEAN : backend_answers(status, wellformed)
    \/ \E t \in Tasks, receives \in BOOLEAN : cmd_recv(t, receives)

\* ------------------------------------------------------------------ sync gate
\* Two OpenedFile, each with its own _not_syncing_event.
Fds == {"fd1", "fd2"}

\* gt_last: the call, its task, its OpenedFile, whether it raised, and whether a
\* start_syncing scope was active on that OpenedFile when it returned.
GtStep(op, t, fd, raised, syncing) ==
    [op |-> op, task |-> t, fd |-> fd, raised |-> raised, syncing |-> syncing]

\* Mutant: the gate is never seen as taken.
is_syncing_never(fd) == FALSE

\* opened_file.py lines 114-115.
is_syncing(fd) == ~gt_event[fd]

\* opened_file.py lines 103-108: entering `with fd.start_syncing()`, from outside any
\* scope or from inside one.
start_syncing(t, fd) ==
    /\ gt_pc[t] = "idle"
    /\ IF is_syncing(fd)
       THEN /\ gt_last' = GtStep("start_syncing", t, fd, TRUE, TRUE)
            /\ UNCHANGED <<gt_event, gt_scopes>>
       ELSE /\ gt_event' = [gt_event EXCEPT ![fd] = FALSE]
            /\ gt_scopes' = [gt_scopes EXCEPT ![t] = Append(@, fd)]
            /\ gt_last' = GtStep("start_syncing", t, fd, FALSE, TRUE)
    /\ UNCHANGED <<gt_pc, syncVars, ofVars, pgVars, ntVars, omVars, bcVars, ctVars, mpVars>>

\* opened_file.py lines 109-112: the body of the innermost `with` of the task ends, by
\* reaching its end or by an exception (a cancellation is one); `finally` sets the
\* event.
exit_syncing(t, how) ==
    /\ gt_pc[t] = "idle"
    /\ gt_scopes[t] # <<>>
    /\ LET fd == gt_scopes[t][Len(gt_scopes[t])]
       IN  /\ gt_event' = [gt_event EXCEPT ![fd] = TRUE]
           /\ gt_last' = GtStep(how, t, fd, how = "exception", FALSE)
    /\ gt_scopes' = [gt_scopes EXCEPT ![t] = SubSeq(@, 1, Len(@) - 1)]
    /\ UNCHANGED <<gt_pc, syncVars, ofVars, pgVars, ntVars, omVars, bcVars, ctVars, mpVars>>

\* opened_file.py lines 117-118: `await fd.wait_not_syncing()`. The coroutine function
\* returns the coroutine object of Event.wait() without awaiting it, so the caller's
\* await ends at once, whatever the event.
wait_not_syncing(t, fd) ==
    /\ gt_pc[t] = "idle"
    /\ gt_scopes[t] = <<>>
    /\ gt_pc' = [gt_pc EXCEPT ![t] = fd]
    /\ gt_last' = GtStep("wait_not_syncing", t, fd, FALSE, is_syncing(fd))
    /\ UNCHANGED <<gt_event, gt_scopes, syncVars, ofVars, pgVars, ntVars, omVars, bcVars, ctVars, mpVars>>

\* The flush of the OpenedFile that follows wait_not_syncing in the same task.
flush(t) ==
    /\ gt_pc[t] \in Fds
    /\ gt_pc' = [gt_pc EXCEPT ![t] = "idle"]
    /\ gt_last' = GtStep("flush", t, gt_pc[t], FALSE, is_syncing(gt_pc[t]))
    /\ UNCHANGED <<gt_event, gt_scopes, syncVars, ofVars, pgVars, ntVars, omVars, bcVars, ctVars, mpVars>>

InitGT ==
    /\ gt_event = [fd \in Fds |-> TRUE]
    /\ gt_scopes = [t \in Tasks |-> <<>>]
    /\ gt_pc = [t \in Tasks |-> "idle"]
    /\ gt_last = GtStep("none", "none", "none", FALSE, FALSE)

NextGate ==
    \/ \E t \in Tasks, fd \in Fds : start_syncing(t, fd)
    \/ \E t \in Tasks, how \in {"end", "exception"} : exit_syncing(t, how)
    \/ \E t \in Tasks, fd \in Fds : wait_not_syncing(t, fd)
    \/ \E t \in Tasks : flush(t)

NextSync ==
    \/ \E t \in Tasks : sync(t)
    \/ \E t \in Tasks, a \in Entries, r \in Recursives : sync_enter(t, a, r)
    \/ \E t \in Tasks : sync_nolock_start(t)
    \/ \E t \in Tasks : sync_nolock_children(t)
    \/ \E t \in Tasks : sync_nolock_block_post(t)
    \/ \E t \in Tasks : sync_nolock_publish(t)
    \/ \E f \in Files : LocalWrite(f)
    \/ \E d \in Folders : LocalTouch(d)
    \/ \E e \in Entries : RemoteUpdate(e)
    \/ \E e \in Entries : Fetch(e)

\* The syncs started by sync_by_id beside those started by sync, on local writes.
NextSyncById ==
    \/ \E t \in Tasks, id \in Entries : sync_by_id(t, id)
    \/ \E t \in Tasks : sync(t)
    \/ \E t \in Tasks, a \in Entries, r \in Recursives : sync_enter(t, a, r)
    \/ \E t \in Tasks : sync_nolock_start(t)
    \/ \E t \in Tasks : sync_nolock_children(t)
    \/ \E t \in Tasks : sync_nolock_block_post(t)
    \/ \E t \in Tasks : sync_nolock_publish(t)
    \/ \E f \in Files : LocalWrite(f)
    \/ \E e \in Entries : Fetch(e)

\* Syncs called with every kind of `recursive`, on local changes.
NextSyncFolder ==
    \/ \E t \in Tasks : sync(t)
    \/ \E t \in Tasks, a \in Entries, r \in RecursivesWide : sync_enter(t, a, r)
    \/ \E t \in Tasks : sync_nolock_start(t)
    \/ \E t \in Tasks : sync_nolock_children(t)
    \/ \E t \in Tasks : sync_nolock_block_post(t)
    \/ \E t \in Tasks : sync_nolock_publish(t)
    \/ \E f \in Files : LocalWrite(f)
    \/ \E d \in Folders : LocalTouch(d)

\* Syncs that may be cancelled while they publish, on local changes.
NextSyncCancel ==
    \/ \E t \in Tasks : sync(t)
    \/ \E t \in Tasks, a \in Entries, r \in Recursives : sync_enter(t, a, r)
    \/ \E t \in Tasks : sync_nolock_start(t)
    \/ \E t \in Tasks : sync_nolock_children(t)
    \/ \E t \in Tasks : sync_nolock_block_post(t)
    \/ \E t \in Tasks : sync_nolock_publish(t)
    \/ \E t \in Tasks : sync_nolock_publish_cancelled(t)
    \/ \E f \in Files : LocalWrite(f)
    \/ \E d \in Folders : LocalTouch(d)

\* The steps of the sync task t once it holds the lock.
SyncBody(t) ==
    \/ \E a \in Entries, r \in Recursives : sync_enter(t, a, r)
    \/ sync_nolock_start(t)
    \/ sync_nolock_children(t)
    \/ sync_nolock_block_post(t)
    \/ sync_nolock_publish(t)

\* Syncs on local writes.
NextSyncLock ==
    \/ \E t \in Tasks : sync(t)
    \/ \E t \in Tasks : SyncBody(t)
    \/ \E f \in Files : LocalWrite(f)

\* ------------------------------------------------------------ certificates
\* parsec/crypto/certif.py: the device, user and revoked-device certificates.
MaxTimestamp == 2

CertTypes == {"device", "user", "device_revoked"}
CertifierIds == {"None", "alice@dev1", "bob@dev1"}  \* None: the root key
SigningKeys == {"sk1", "sk2"}
VerifyKeys == {"vk1", "vk2"}
SubjectIds == {"zack@dev1", "mallory@dev1"}
SubjectKeys == {"pk1", "pk2"}
Timestamps == 1..MaxTimestamp

\* SigningKey.verify_key
verify_key_of(key) == IF key = "sk1" THEN "vk1" ELSE "vk2"

CtOk(value) == [status |-> "ok", value |-> value]
CtErr(exc) == [status |-> exc, value |-> "none"]

\* The fields of the three schemas, `type` with its checked constant.
SchemaFields(type) ==
    CASE type = "device" -> <<"type", "device_id", "verify_key">>
      [] type = "user" -> <<"type", "user_id", "public_key">>
      [] type = "device_revoked" -> <<"type", "device_id">>

\* Serializer.dumps: the mapping packed as a sequence of (name, value) pairs.
schema_dumps(type, data) ==
    [i \in 1..Len(SchemaFields(type)) |->
        <<SchemaFields(type)[i], data[SchemaFields(type)[i]]>>]

\* Serializer.loads: unpacks the pairs, then validates the required fields
\* and the checked constant of the schema.
schema_loads(type, content) ==
    LET names == {content[i][1] : i \in 1..Len(content)}
        data == [n \in names |->
                    content[CHOOSE i \in 1..Len(content) : content[i][1] = n][2]]
        required == {SchemaFields(type)[i] : i \in 1..Len(SchemaFields(type))}
    IN IF required \subseteq names /\ data["type"] = type
       THEN CtOk([n \in required |-> data[n]])
       ELSE CtErr("CryptoWrappedMsgValidationError")

\* parsec.crypto.signed: the signed message carries the author and the
\* timestamp in its header and the content signed with the author's key.
build_signed_msg(author, key, content, timestamp) ==
    [device_id |-> author, timestamp |-> timestamp,
     signed |-> [key |-> key, content |-> content]]

unsecure_extract_signed_msg_meta(msg) == <<msg.device_id, msg.timestamp>>

verify_signed_msg(msg, expected_author, verify_key, expected_timestamp) ==
    IF verify_key_of(msg.signed.key) # verify_key
    THEN CtErr("CryptoError")
    ELSE IF msg.device_id # expected_author
    THEN CtErr("CryptoSignatureAuthorMismatchError")
    ELSE IF msg.timestamp # expected_timestamp
    THEN CtErr("CryptoSignatureTimestampMismatchError")
    ELSE CtOk(msg.signed.content)

build_device_certificate(certifier_id, certifier_key, device_id, verify_key, timestamp) ==
    LET content == schema_dumps("device",
            [type |-> "device", device_id |-> device_id, verify_key |-> verify_key])
    IN build_signed_msg(certifier_id, certifier_key, content, timestamp)

build_revoked_device_certificate(certifier_id, certifier_key, revoked_device_id, timestamp) ==
    LET content == schema_dumps("device_revoked",
            [type |-> "device_revoked", device_id |-> revoked_device_id])
    IN build_signed_msg(certifier_id, certifier_key, content, timestamp)

build_user_certificate(certifier_id, certifier_key, user_id, public_key, timestamp) ==
    LET content == schema_dumps("user",
            [type |-> "user", user_id |-> user_id, public_key |-> public_key])
    IN build_signed_msg(certifier_id, certifier_key, content, timestamp)

\* A verify_device_certificate that checks the signature against the author
\* the certificate names, as it does for the timestamp.
verify_device_certificate_own_author(device_certificate, expected_author_id, author_verify_key) ==
    LET meta == unsecure_extract_signed_msg_meta(device_certificate)
        content == verify_signed_msg(device_certificate, meta[1],
                                     author_verify_key, meta[2])
        data == schema_loads("device", content.value)
    IN IF content.status # "ok" THEN content
       ELSE IF data.status # "ok" THEN data
       ELSE CtOk([device_id |-> data.value["device_id"],
                  verify_key |-> data.value["verify_key"],
                  certified_by |-> expected_author_id,
                  certified_on |-> meta[2]])

verify_device_certificate(device_certificate, expected_author_id, author_verify_key) ==
    LET timestamp == unsecure_extract_signed_msg_meta(device_certificate)[2]
        content == verify_signed_msg(device_certificate, expected_author_id,
                                     author_verify_key, timestamp)
        data == schema_loads("device", content.value)
    IN IF content.status # "ok" THEN content
       ELSE IF data.status # "ok" THEN data
       ELSE CtOk([device_id |-> data.value["device_id"],
                  verify_key |-> data.value["verify_key"],
                  certified_by |-> expected_author_id,
                  certified_on |-> timestamp])

verify_revoked_device_certificate(revoked_device_certificate, expected_author_id, author_verify_key) ==
    LET timestamp == unsecure_extract_signed_msg_meta(revoked_device_certificate)[2]
        content == verify_signed_msg(revoked_device_certificate, expected_author_id,
                                     author_verify_key, timestamp)
        data == schema_loads("device_revoked", content.value)
    IN IF content.status # "ok" THEN content
       ELSE IF data.status # "ok" THEN data
       ELSE CtOk([device_id |-> data.value["device_id"],
                  certified_by |-> expected_author_id,
                  certified_on |-> timestamp])

verify_user_certificate(user_certificate, expected_author_id, author_verify_key) ==
    LET timestamp == unsecure_extract_signed_msg_meta(user_certificate)[2]
        content == verify_signed_msg(user_certificate, expected_author_id,
                                     author_verify_key, timestamp)
        data == schema_loads("user", content.value)
    IN IF content.status # "ok" THEN content
       ELSE IF data.status # "ok" THEN data
       ELSE CtOk([user_id |-> data.value["user_id"],
                  public_key |-> data.value["public_key"],
                  certified_by |-> expected_author_id,
                  certified_on |-> timestamp])

NoCertificate == build_signed_msg("none", "none", <<>>, 0)
NoBuilt == [type |-> "none", certifier_id |-> "none", certifier_key |-> "none",
            fields |-> <<>>, timestamp |-> 0]
NoVerified == [type |-> "none", expected_author_id |-> "none",
               author_verify_key |-> "none", ret |-> CtErr("none")]

\* A caller builds a certificate of one of the three types.
call_build_device(certifier_id, certifier_key, device_id, verify_key, timestamp) ==
    /\ ct_cert' = build_device_certificate(certifier_id, certifier_key, device_id,
                                           verify_key, timestamp)
    /\ ct_built' = [type |-> "device", certifier_id |-> certifier_id,
                    certifier_key |-> certifier_key,
                    fields |-> [device_id |-> device_id, verify_key |-> verify_key],
                    timestamp |-> timestamp]
    /\ ct_verified' = NoVerified
    /\ UNCHANGED <<syncVars, ofVars, pgVars, ntVars, omVars, bcVars, gtVars, mpVars>>

call_build_revoked_device(certifier_id, certifier_key, revoked_device_id, timestamp) ==
    /\ ct_cert' = build_revoked_device_certificate(certifier_id, certifier_key,
                                                   revoked_device_id, timestamp)
    /\ ct_built' = [type |-> "device_revoked", certifier_id |-> certifier_id,
                    certifier_key |-> certifier_key,
                    fields |-> [device_id |-> revoked_device_id],
                    timestamp |-> timestamp]
    /\ ct_verified' = NoVerified
    /\ UNCHANGED <<syncVars, ofVars, pgVars, ntVars, omVars, bcVars, gtVars, mpVars>>

call_build_user(certifier_id, certifier_key, user_id, public_key, timestamp) ==
    /\ ct_cert' = build_user_certificate(certifier_id, certifier_key, user_id,
                                         public_key, timestamp)
    /\ ct_built' = [type |-> "user", certifier_id |-> certifier_id,
                    certifier_key |-> certifier_key,
                    fields |-> [user_id |-> user_id, public_key |-> public_key],
                    timestamp |-> timestamp]
    /\ ct_verified' = NoVerified
    /\ UNCHANGED <<syncVars, ofVars, pgVars, ntVars, omVars, bcVars, gtVars, mpVars>>

\* A caller hands the certificate to one of the three verify functions.
call_verify(type, expected_author_id, author_verify_key) ==
    /\ ct_cert # NoCertificate
    /\ ct_verified' =
        [type |-> type, expected_author_id |-> expected_author_id,
         author_verify_key |-> author_verify_key,
         ret |-> CASE type = "device" ->
                        verify_device_certificate(ct_cert, expected_author_id,
                                                  author_verify_key)
                   [] type = "device_revoked" ->
                        verify_revoked_device_certificate(ct_cert, expected_author_id,
                                                          author_verify_key)
                   [] type = "user" ->
                        verify_user_certificate(ct_cert, expected_author_id,
                                                author_verify_key)]
    /\ UNCHANGED <<ct_cert, ct_built, syncVars, ofVars, pgVars, ntVars, omVars,
                   bcVars, gtVars, mpVars>>

InitCT ==
    /\ ct_cert = NoCertificate
    /\ ct_built = NoBuilt
    /\ ct_verified = NoVerified

NextCertif ==
    \/ \E c \in CertifierIds, k \in SigningKeys, d \in SubjectIds, v \in VerifyKeys,
          ts \in Timestamps : call_build_device(c, k, d, v, ts)
    \/ \E c \in CertifierIds, k \in SigningKeys, d \in SubjectIds,
          ts \in Timestamps : call_build_revoked_device(c, k, d, ts)
    \/ \E c \in CertifierIds, k \in SigningKeys, u \in SubjectIds, p \in SubjectKeys,
          ts \in Timestamps : call_build_user(c, k, u, p, ts)
    \/ \E type \in CertTypes, e \in CertifierIds, v \in VerifyKeys :
          call_verify(type, e, v)

\* ------------------------------------------------------- fuse_mountpoint_runner
\* parsec/core/mountpoint/fuse_runner.py: one runner task per mountpoint, the
\* child task it starts in its nursery and the worker thread that runs FUSE.
Mountpoints == {"w1", "w2"}

ThreadStopped == {"exited", "crashed_startup", "crashed"}

\* The nursery's cancel scope is cancelled from outside or by a crashed child.
ScopeCancelled(m) == mp_cancelled[m] \/ mp_child[m] = "crashed"

event_bus_send(m, topic) == mp_events' = [mp_events EXCEPT ![m] = Append(@, topic)]

\* The scope the runner is in gets cancelled by its owner.
cancel(m) ==
    /\ mp_pc[m] # "done"
    /\ ~mp_cancelled[m]
    /\ mp_cancelled' = [mp_cancelled EXCEPT ![m] = TRUE]
    /\ UNCHANGED <<mp_pc, mp_child, mp_thread, mp_stopped, mp_exit, mp_events,
                   mp_exc, syncVars, ofVars, pgVars, ntVars, omVars, bcVars,
                   gtVars, ctVars>>

\* Lines 101-103: a checkpoint of _bootstrap_mountpoint delivers the
\* cancellation, before the try block is entered.
bootstrap_cancelled(m) ==
    /\ mp_pc[m] = "bootstrap"
    /\ mp_cancelled[m]
    /\ mp_pc' = [mp_pc EXCEPT ![m] = "done"]
    /\ mp_exc' = [mp_exc EXCEPT ![m] = "Cancelled"]
    /\ UNCHANGED <<mp_child, mp_thread, mp_stopped, mp_exit, mp_events,
                   mp_cancelled, syncVars, ofVars, pgVars, ntVars, omVars,
                   bcVars, gtVars, ctVars>>

\* Lines 101-144: _bootstrap_mountpoint returns (its last awaits run in
\* worker threads that are not cancellable, so a cancellation may be pending),
\* mountpoint.starting is sent, the nursery is opened, the child task is
\* scheduled and the runner reaches the sleep of _wait_for_fuse_ready.
runner_start(m) ==
    /\ mp_pc[m] = "bootstrap"
    /\ event_bus_send(m, "mountpoint.starting")
    /\ mp_child' = [mp_child EXCEPT ![m] = "scheduled"]
    /\ mp_pc' = [mp_pc EXCEPT ![m] = "sleep"]
    /\ UNCHANGED <<mp_thread, mp_stopped, mp_exit, mp_cancelled, mp_exc,
                   syncVars, ofVars, pgVars, ntVars, omVars, bcVars, gtVars,
                   ctVars>>

\* Line 160: trio.sleep is a checkpoint; Cancelled leaves the body of the
\* nursery, which then waits for its child.
wait_for_fuse_ready_sleep(m) ==
    /\ mp_pc[m] = "sleep"
    /\ IF ScopeCancelled(m)
       THEN /\ mp_pc' = [mp_pc EXCEPT ![m] = "join"]
            /\ mp_exc' = [mp_exc EXCEPT ![m] = "Cancelled"]
       ELSE /\ mp_pc' = [mp_pc EXCEPT ![m] = "stat"]
            /\ UNCHANGED mp_exc
    /\ UNCHANGED <<mp_child, mp_thread, mp_stopped, mp_exit, mp_events,
                   mp_cancelled, syncVars, ofVars, pgVars, ntVars, omVars,
                   bcVars, gtVars, ctVars>>

\* Lines 161-163: the stat of the mountpoint path, in a worker thread; the
\* loop is left when st_dev has changed, that is when FUSE is mounted.
wait_for_fuse_ready_stat(m) ==
    /\ mp_pc[m] = "stat"
    /\ mp_pc' = [mp_pc EXCEPT ![m] =
                    IF mp_thread[m] = "mounted" THEN "ready" ELSE "sleep"]
    /\ UNCHANGED <<mp_child, mp_thread, mp_stopped, mp_exit, mp_events,
                   mp_cancelled, mp_exc, syncVars, ofVars, pgVars, ntVars,
                   omVars, bcVars, gtVars, ctVars>>

\* Lines 146-147: back in the runner, with no checkpoint in between.
send_started(m) ==
    /\ mp_pc[m] = "ready"
    /\ event_bus_send(m, "mountpoint.started")
    /\ mp_pc' = [mp_pc EXCEPT ![m] = "join"]
    /\ UNCHANGED <<mp_child, mp_thread, mp_stopped, mp_exit, mp_cancelled,
                   mp_exc, syncVars, ofVars, pgVars, ntVars, omVars, bcVars,
                   gtVars, ctVars>>

\* Line 108: the end of the nursery block waits for the child task and
\* raises what the child or the body raised.
nursery_exit(m) ==
    /\ mp_pc[m] = "join"
    /\ mp_child[m] \in {"returned", "crashed", "cancelled"}
    /\ mp_pc' = [mp_pc EXCEPT ![m] = "stop"]
    /\ mp_exc' = [mp_exc EXCEPT ![m] =
                    IF mp_child[m] = "crashed" THEN "MountpointDriverCrash"
                    ELSE IF mp_child[m] = "cancelled" THEN "Cancelled"
                    ELSE @]
    /\ UNCHANGED <<mp_child, mp_thread, mp_stopped, mp_exit, mp_events,
                   mp_cancelled, syncVars, ofVars, pgVars, ntVars, omVars,
                   bcVars, gtVars, ctVars>>

\* Lines 150-151 and 169-178: _stop_fuse_thread returns at once when
\* fuse_thread_stopped is set; otherwise it schedules the exit and waits.
stop_fuse_thread(m) ==
    /\ mp_pc[m] = "stop"
    /\ IF mp_stopped[m]
       THEN /\ event_bus_send(m, "mountpoint.stopped")
            /\ mp_pc' = [mp_pc EXCEPT ![m] = "teardown"]
            /\ UNCHANGED mp_exit
       ELSE /\ mp_exit' = [mp_exit EXCEPT ![m] = TRUE]
            /\ mp_pc' = [mp_pc EXCEPT ![m] = "stop_wait"]
            /\ UNCHANGED mp_events
    /\ UNCHANGED <<mp_child, mp_thread, mp_stopped, mp_cancelled, mp_exc,
                   syncVars, ofVars, pgVars, ntVars, omVars, bcVars, gtVars,
                   ctVars>>

\* Lines 183 and 151: the shielded wait for fuse_thread_stopped ends.
stop_fuse_thread_waited(m) ==
    /\ mp_pc[m] = "stop_wait"
    /\ mp_stopped[m]
    /\ event_bus_send(m, "mountpoint.stopped")
    /\ mp_pc' = [mp_pc EXCEPT ![m] = "teardown"]
    /\ UNCHANGED <<mp_child, mp_thread, mp_stopped, mp_exit, mp_cancelled,
                   mp_exc, syncVars, ofVars, pgVars, ntVars, omVars, bcVars,
                   gtVars, ctVars>>

\* Line 152.
teardown_mountpoint(m) ==
    /\ mp_pc[m] = "teardown"
    /\ mp_pc' = [mp_pc EXCEPT ![m] = "done"]
    /\ UNCHANGED <<mp_child, mp_thread, mp_stopped, mp_exit, mp_events,
                   mp_cancelled, mp_exc, syncVars, ofVars, pgVars, ntVars,
                   omVars, bcVars, gtVars, ctVars>>

\* Lines 141-143: the child task runs trio.run_sync_in_worker_thread, which
\* begins with a checkpoint: in a cancelled scope it raises Cancelled and
\* spawns no thread; otherwise the thread starts and enters FUSE.
child_start(m) ==
    /\ mp_child[m] = "scheduled"
    /\ IF ScopeCancelled(m)
       THEN /\ mp_child' = [mp_child EXCEPT ![m] = "cancelled"]
            /\ UNCHANGED mp_thread
       ELSE /\ mp_child' = [mp_child EXCEPT ![m] = "in_thread"]
            /\ mp_thread' = [mp_thread EXCEPT ![m] = "init"]
    /\ UNCHANGED <<mp_pc, mp_stopped, mp_exit, mp_events, mp_cancelled, mp_exc,
                   syncVars, ofVars, pgVars, ntVars, omVars, bcVars, gtVars,
                   ctVars>>

\* Line 142, cancellable=True: a cancelled child abandons its thread, which
\* goes on running.
child_cancelled(m) ==
    /\ mp_child[m] = "in_thread"
    /\ mp_cancelled[m]
    /\ mp_child' = [mp_child EXCEPT ![m] = "cancelled"]
    /\ UNCHANGED <<mp_pc, mp_thread, mp_stopped, mp_exit, mp_events,
                   mp_cancelled, mp_exc, syncVars, ofVars, pgVars, ntVars,
                   omVars, bcVars, gtVars, ctVars>>

\* Line 142: the thread is over, the child task returns or raises
\* MountpointDriverCrash.
child_done(m) ==
    /\ mp_child[m] = "in_thread"
    /\ mp_thread[m] \in ThreadStopped
    /\ mp_child' = [mp_child EXCEPT ![m] =
                        IF mp_thread[m] = "exited" THEN "returned" ELSE "crashed"]
    /\ UNCHANGED <<mp_pc, mp_thread, mp_stopped, mp_exit, mp_events,
                   mp_cancelled, mp_exc, syncVars, ofVars, pgVars, ntVars,
                   omVars, bcVars, gtVars, ctVars>>

\* Lines 114-120: FUSE has mounted the filesystem and serves it.
fuse_mounted(m) ==
    /\ mp_thread[m] = "init"
    /\ mp_thread' = [mp_thread EXCEPT ![m] = "mounted"]
    /\ UNCHANGED <<mp_pc, mp_child, mp_stopped, mp_exit, mp_events,
                   mp_cancelled, mp_exc, syncVars, ofVars, pgVars, ntVars,
                   omVars, bcVars, gtVars, ctVars>>

\* Lines 122-132: FUSE raises, during its startup or later; the finally
\* clause sets fuse_thread_stopped.
fuse_crashed(m) ==
    /\ mp_thread[m] \in {"init", "mounted"}
    /\ mp_thread' = [mp_thread EXCEPT ![m] =
                        IF @ = "init" THEN "crashed_startup" ELSE "crashed"]
    /\ mp_stopped' = [mp_stopped EXCEPT ![m] = TRUE]
    /\ UNCHANGED <<mp_pc, mp_child, mp_exit, mp_events, mp_cancelled, mp_exc,
                   syncVars, ofVars, pgVars, ntVars, omVars, bcVars, gtVars,
                   ctVars>>

\* Lines 114-132: FUSE returns because the filesystem was unmounted from
\* outside; the finally clause sets fuse_thread_stopped.
fuse_unmounted(m) ==
    /\ mp_thread[m] = "mounted"
    /\ ~mp_exit[m]
    /\ mp_thread' = [mp_thread EXCEPT ![m] = "exited"]
    /\ mp_stopped' = [mp_stopped EXCEPT ![m] = TRUE]
    /\ UNCHANGED <<mp_pc, mp_child, mp_exit, mp_events, mp_cancelled, mp_exc,
                   syncVars, ofVars, pgVars, ntVars, omVars, bcVars, gtVars,
                   ctVars>>

\* Lines 178-180 and 114-132: FUSE processes the scheduled exit and returns.
fuse_exited(m) ==
    /\ mp_thread[m] = "mounted"
    /\ mp_exit[m]
    /\ mp_thread' = [mp_thread EXCEPT ![m] = "exited"]
    /\ mp_stopped' = [mp_stopped EXCEPT ![m] = TRUE]
    /\ UNCHANGED <<mp_pc, mp_child, mp_exit, mp_events, mp_cancelled, mp_exc,
                   syncVars, ofVars, pgVars, ntVars, omVars, bcVars, gtVars,
                   ctVars>>

InitMP ==
    /\ mp_pc = [m \in Mountpoints |-> "bootstrap"]
    /\ mp_child = [m \in Mountpoints |-> "none"]
    /\ mp_thread = [m \in Mountpoints |-> "none"]
    /\ mp_stopped = [m \in Mountpoints |-> FALSE]
    /\ mp_exit = [m \in Mountpoints |-> FALSE]
    /\ mp_events = [m \in Mountpoints |-> <<>>]
    /\ mp_cancelled = [m \in Mountpoints |-> FALSE]
    /\ mp_exc = [m \in Mountpoints |-> "none"]

\* The steps of the runner task, of its child task and of FUSE that take
\* place without anything from outside.
RunnerStep(m) ==
    \/ bootstrap_cancelled(m)
    \/ runner_start(m)
    \/ wait_for_fuse_ready_sleep(m)
    \/ wait_for_fuse_ready_stat(m)
    \/ send_started(m)
    \/ nursery_exit(m)
    \/ stop_fuse_thread(m)
    \/ stop_fuse_thread_waited(m)
    \/ teardown_mountpoint(m)

ChildStep(m) == child_start(m) \/ child_cancelled(m) \/ child_done(m)

FuseStep(m) == fuse_mounted(m) \/ fuse_exited(m)

NextMountpoint ==
    \E m \in Mountpoints :
        \/ cancel(m)
        \/ bootstrap_cancelled(m)
        \/ runner_start(m)
        \/ wait_for_fuse_ready_sleep(m)
        \/ wait_for_fuse_ready_stat(m)
        \/ send_started(m)
        \/ nursery_exit(m)
        \/ stop_fuse_thread(m)
        \/ stop_fuse_thread_waited(m)
        \/ teardown_mountpoint(m)
        \/ child_start(m)
        \/ child_cancelled(m)
        \/ child_done(m)
        \/ fuse_mounted(m)
        \/ fuse_crashed(m)
        \/ fuse_unmounted(m)
        \/ fuse_exited(m)

Init ==
    /\ InitSync /\ InitOF /\ InitPG /\ InitNT /\ InitOM /\ InitBC /\ InitGT
    /\ InitCT /\ InitMP

Spec == Init /\ [][NextSync]_vars

SpecOpenedFile == Init /\ [][NextOpenedFile]_vars

SpecCertif == Init /\ [][NextCertif]_vars

\* trio runs every task that can run, and a FUSE that is starting or was
\* asked to exit goes on; the cancellation, the crash and the unmount from
\* outside are not bound to happen.
SpecMountpoint ==
    /\ Init /\ [][NextMountpoint]_vars
    /\ \A m \in Mountpoints :
        WF_vars(RunnerStep(m)) /\ WF_vars(ChildStep(m)) /\ WF_vars(FuseStep(m))

SpecSyncMap == Init /\ [][NextSyncMap]_vars

SpecOverlay == Init /\ [][NextOverlay]_vars

SpecBlock == Init /\ [][NextBlock]_vars

SpecPublish == Init /\ [][NextPublish]_vars

SpecSyncById == Init /\ [][NextSyncById]_vars

SpecSyncFolder == Init /\ [][NextSyncFolder]_vars

SpecBackendCmds == Init /\ [][NextBackendCmds]_vars

SpecGate == Init /\ [][NextGate]_vars

SpecSyncCancel == Init /\ [][NextSyncCancel]_vars

\* trio runs every task that can run, and an awaited backend call ends, by an answer
\* or by an error: a task that holds the lock goes on until its sync has ended.
SpecSyncLock == Init /\ [][NextSyncLock]_vars /\ \A t \in Tasks : WF_vars(SyncBody(t))

SpecOpenedFiles == Init /\ [][NextOpenedFiles]_vars

SpecSyncOpened == Init /\ [][NextSyncOpened]_vars


\* ------------------------------------------------------------------ claims
\* The steps the claims about the Syncer speak of, as actions.
Publishing(t) ==
    /\ pc[t] = "running" /\ stack[t] # <<>>
    /\ Top(t).pc = "publish"
    /\ stack'[t] # stack[t]

Posting(t) ==
    /\ pc[t] = "running" /\ stack[t] # <<>>
    /\ Top(t).pc = "post"
    /\ stack'[t] # stack[t]

EndingSecondRun(t) ==
    /\ pc[t] = "running" /\ pc'[t] = "idle"
    /\ last'.ended = "returned" /\ last'.second

\* C1: sync bodies never interleave: while a task runs the body of sync (or holds
\* the lock to run it), no other task runs it or has any _sync_nolock frame.
SyncBodiesNeverInterleave ==
    \A t \in Tasks, u \in Tasks :
        (t # u /\ pc[t] \in {"running", "acquired"}) =>
            /\ pc[u] \notin {"running", "acquired"}
            /\ stack[u] = <<>>
            /\ lockOwner = t

SyncWaitsForRunningBody ==
    \E t \in Tasks, u \in Tasks :
        /\ pc[t] = "running" /\ stack[t] # <<>> /\ Top(t).pc = "publish"
        /\ pc[u] = "waiting"

\* The version a publish carries, and the one the backend stores when it answers ok.
PublishCarriesNextVersion ==
    \A t \in Tasks :
        Publishing(t) =>
            /\ last'.version = store[Top(t).access].base_version + 1
            /\ (last'.op = "vlob_create" => last'.version = 1)
            /\ (last'.status = "ok" => vlobs'[Top(t).access].version = last'.version)

BaseVersionNeverDecreases ==
    \A e \in Entries : store[e].type # "none" => store[e].base_version >= hiBase[e]

\* C3: every vlob_update a sync sends carries the entry's local base_version + 1, a
\* vlob_create publishes version 1, and the base_version stored locally for an entry
\* never decreases (hiBase is the highest one ever stored).
VersionMonotonicity ==
    [][PublishCarriesNextVersion]_vars /\ []BaseVersionNeverDecreases

UpdatePublished ==
    /\ last.op = "vlob_update" /\ last.status = "ok" /\ last.version = 2
    /\ store[last.id].base_version = 2

\* The command a publish sends, by the manifest stored for the entry.
CreateIffPlaceholder ==
    \A t \in Tasks :
        Publishing(t) =>
            (last'.op = "vlob_create" <=> store[Top(t).access].is_placeholder)

ResolvedStaysResolved ==
    \A e \in Entries :
        (store[e].type = "none" \/ ~store[e].is_placeholder) => ~store'[e].is_placeholder

ResolvedOnce ==
    /\ \A e \in Entries :
          /\ createdOk[e] <= 1
          /\ createdOk[e] = 1 => ~store[e].is_placeholder
    /\ (last.op = "vlob_create" /\ last.status = "ok") =>
          /\ store[last.id].type # "none"
          /\ ~store[last.id].is_placeholder
          /\ store[last.id].base_version = 1

\* C4: a sync publishes with vlob_create exactly when the local manifest is a
\* placeholder; after a vlob_create answered ok the local manifest is resolved with
\* base_version 1; a resolved entry never becomes a placeholder again and vlob_create
\* is answered ok at most once per entry.
PlaceholderResolution ==
    /\ [][CreateIffPlaceholder]_vars
    /\ [][ResolvedStaysResolved]_vars
    /\ []ResolvedOnce

UpdateAfterCreate ==
    /\ last.op = "vlob_update" /\ last.status = "ok" /\ last.id = "f"
    /\ createdOk["f"] = 1

\* What a failed step of task t leaves behind.
FailureLeavesManifest(t) ==
    LET a == Top(t).access
        m == Top(t).manifest
    IN  last'.status # "ok" =>
          /\ last'.ended = "raised"
          /\ pc'[t] = "idle"
          /\ store' = store
          /\ store[a].base_version = m.base_version
          /\ store[a].is_placeholder = m.is_placeholder
          /\ store[a].blocks = m.blocks
          /\ store[a].need_sync = m.need_sync
          /\ IsPrefix(m.dirty_blocks, store[a].dirty_blocks)

RollbackStep ==
    \A t \in Tasks : (Publishing(t) \/ Posting(t)) => FailureLeavesManifest(t)

RecoveryAfterFailedCommit ==
    (last.retry /\ last.status # "unavailable") => last.ended = "returned"

\* The blocks a file publish stores on the backend.
PublishedBlocksStep ==
    \A t \in Tasks :
        (Publishing(t) /\ is_file_manifest(Top(t).manifest) /\ last'.status = "ok") =>
            vlobs'[Top(t).access].blob.blocks =
                Top(t).manifest.blocks \o Top(t).manifest.dirty_blocks

\* C8: the blocks of the remote manifest a file sync publishes are the blocks of the
\* local manifest followed by its dirty_blocks, each once.
PublishedBlocksOnce == [][PublishedBlocksStep]_vars

\* A second run that changes nothing, locally or remotely.
SecondRunChangesNothing ==
    \A t \in Tasks :
        EndingSecondRun(t) =>
            /\ store'[call[t].access] = store[call[t].access]
            /\ vlobs'[call[t].access] = vlobs[call[t].access]
            /\ last'.op \in {"nothing", "missing"}

\* C9, as claimed: a sync run right after a run that returned on the same arguments,
\* with no change in between, leaves the local manifest and the remote vlob of the
\* entry as the first run left them and publishes nothing.
SyncIdempotence == [][SecondRunChangesNothing]_vars

\* A second run that only drops the local copy.
SecondRunOnlyOutdates ==
    \A t \in Tasks :
        EndingSecondRun(t) =>
            LET a == call[t].access
            IN  /\ vlobs'[a] = vlobs[a]
                /\ last'.op \in {"nothing", "missing"}
                /\ store'[a] = NoManifest
                /\ store[a] # NoManifest =>
                      /\ last'.op = "nothing"
                      /\ vlobs[a].version >= 1
                      /\ store[a] = remote_to_local_manifest(vlobs[a].blob)

\* C9, amended: the second run publishes nothing and leaves the remote vlob as it
\* was; locally it drops the entry's manifest (mark_outdated), so that no manifest is
\* stored afterwards, and the manifest the first run left, if any, is the local form
\* of the remote version, which the next read fetches again.
SyncIdempotenceRemote == [][SecondRunOnlyOutdates]_vars

SecondRunDroppedManifest ==
    /\ last.ended = "returned" /\ last.second /\ last.op = "nothing"
    /\ store[last.id] = NoManifest
    /\ vlobs[last.id].version >= 1

\* C10: a vlob_update the backend rejects with bad_version does not end the sync by
\* an unhandled failure: the sync forks the local state instead.
BadVersionForks ==
    last.status = "bad_version" => last.ended # "raised"


\* What a call of drop_until_marker with the marker of create_marker removes.
DropStep ==
    (of_marker # 0 /\ of_marker' = 0) =>
        /\ of_last'.op = "dropped"
        /\ \E i \in 1..Len(of_cmds) :
              /\ of_cmds[i] = MarkerCmd(of_cmds[i].file_size, of_marker)
              /\ of_cmds' = SubSeq(of_cmds, i + 1, Len(of_cmds))

AfterDrop ==
    of_last.op = "dropped" => of_cmds = of_after /\ ~HasMarker(of_cmds)

\* C2: drop_until_marker removes exactly the commands up to and including the
\* marker, and the commands recorded after create_marker are all still in the log,
\* in the order they were recorded.
MarkerFence == [][DropStep]_vars /\ []AfterDrop

DroppedAroundWrites ==
    /\ of_last.op = "dropped" /\ of_last.dropped >= 2
    /\ \E i \in 1..Len(of_cmds), j \in 1..Len(of_cmds) :
          i < j /\ of_cmds[i].kind = "write" /\ of_cmds[j].kind = "truncate"

\* C7, as claimed: a create of a block id already stored with the same bytes, by an
\* author with the write right and outside maintenance, returns success.
BlockCreateTwiceSucceeds ==
    \A c \in Clients :
        (pg_call[c].pc = "done" /\ pg_call[c].again
            /\ pg_call[c].result # "in_maintenance") => pg_call[c].result = "ok"

\* The second create of a block, as PGBlockComponent.create answers it.
BlockCreateTwiceRefused ==
    \A c \in Clients :
        (pg_call[c].pc = "done" /\ pg_call[c].again
            /\ pg_call[c].result # "in_maintenance") =>
                /\ pg_call[c].result = "already_exists"
                /\ MetaRows(pg_call[c].block_id) = pg_call[c].meta0
                /\ DataRows(pg_call[c].block_id) = pg_call[c].data0

BlockstoreCreateIdempotent ==
    \A c \in Clients :
        (pg_call[c].pc = "store" /\ pg_call'[c].pc # "store") =>
            /\ pg_call'[c].pc = "insert"
            /\ DataRows(pg_call[c].block_id) # {} => pg_block_data' = pg_block_data
            /\ \E row \in pg_block_data' : row.block_id = pg_call[c].block_id

\* C7, amended: that create is refused with BlockAlreadyExistsError and leaves the
\* stored data and metadata of the block as they were; it is the blockstore's create
\* (PGBlockStoreComponent.create) that returns success on an id already stored,
\* leaving the stored bytes as they are.
BlockCreateTwice == []BlockCreateTwiceRefused /\ [][BlockstoreCreateIdempotent]_vars

BlockCreatedTwice ==
    \E c \in Clients :
        /\ pg_call[c].pc = "done" /\ pg_call[c].again
        /\ pg_call[c].result = "already_exists"

\* What build_beacon_messages must hand over for notify: one message per beacon, the
\* pointer to the entry signed and then encrypted under that beacon's key.
ExpectedNotify(notify, a) ==
    [i \in 1..Len(notify) |->
        <<notify[i][1],
          [key |-> notify[i][2],
           content |-> [signed_by |-> "device_signkey",
                        content |-> [pickled |-> [id |-> a]]]]>>]

\* The notify messages a payload carries.
PayloadNotify(payload) ==
    IF "notify" \in DOMAIN payload THEN payload["notify"] ELSE <<>>

\* C11: every vlob_create / vlob_update request of a sync called with notify carries
\* one notify message per listed beacon, the encrypted signed pointer to the entry.
NotifyTravelsWithPublish ==
    (nt_pc = "sent" /\ nt_crypto) =>
        PayloadNotify(nt_payload) = ExpectedNotify(nt_args.notify, nt_args.access)

\* A stored manifest that does not need a sync has no dirty block.
CleanHasNoDirtyBlocks ==
    \A e \in Entries :
        (store[e].type # "none" /\ ~store[e].need_sync) => store[e].dirty_blocks = <<>>

\* The manifest stored when a publish was accepted.
CommitStep ==
    \A t \in Tasks :
        (Publishing(t) /\ last'.status = "ok") =>
            LET a == Top(t).access
            IN  /\ ~store'[a].need_sync
                /\ store'[a].dirty_blocks = <<>>
                /\ ~store'[a].is_placeholder
                /\ store'[a].base_version = vlobs'[a].version
                /\ store'[a].type = vlobs'[a].blob.type
                /\ store'[a].blocks = vlobs'[a].blob.blocks
                /\ store'[a].children = vlobs'[a].blob.children

\* C12: a stored manifest with need_sync false has no dirty block, and the manifest
\* stored at the commit of a successful sync has need_sync false, no dirty block, is
\* resolved and is the remote version just published.
CleanManifests == []CleanHasNoDirtyBlocks /\ [][CommitStep]_vars

FileCommitted ==
    /\ last.op \in {"vlob_create", "vlob_update"} /\ last.status = "ok"
    /\ last.id = "f"
    /\ store["f"].blocks # <<>> /\ ~store["f"].need_sync

\* C13: every stored manifest has base_version 0 exactly when it is a placeholder.
BaseVersionZeroIffPlaceholder ==
    \A e \in Entries :
        store[e].type # "none" => (store[e].base_version = 0 <=> store[e].is_placeholder)

ResolvedBesidePlaceholder ==
    /\ store["f"].type = "file" /\ store["f"].base_version >= 1
    /\ ~store["f"].is_placeholder
    /\ store["root"].is_placeholder /\ store["root"].base_version = 0
    /\ last.id = "root" /\ last.ended = "raised"

\* C14: a file sync drains the pending writes of the opened file and drops them at
\* commit: when a sync of the file returns and no write happened while it ran, the
\* opened file needs no flush (here even against a manifest of the file's own size).
SyncDrainsOpenedFile ==
    \A t \in Tasks :
        (pc[t] = "running" /\ pc'[t] = "idle" /\ last'.ended = "returned"
            /\ call[t].access \in Files) => ~need_flush(of_size)'

SyncFlushesOpenedFile == [][SyncDrainsOpenedFile]_vars

\* The commands of a log replayed in issue order on a byte array.
RECURSIVE Replay(_, _)
Replay(cmds, bytes) ==
    IF cmds = <<>> THEN bytes
    ELSE LET c == Head(cmds)
             next == IF c.kind = "write"
                     THEN SubSeq(bytes, 1, c.offset) \o c.buffer
                            \o SubSeq(bytes, c.offset + Len(c.buffer) + 1, Len(bytes))
                     ELSE IF c.kind = "truncate" /\ c.length < Len(bytes)
                     THEN SubSeq(bytes, 1, c.length)
                     ELSE bytes
         IN  Replay(Tail(cmds), next)

\* C15: after any sequence of writes and truncates, the bytes get_read_map(manifest,
\* size, 0) designates are the first size bytes of the commands replayed in issue
\* order: later writes win and a truncate caps what can be read.
ReadYourWrites ==
    LET bytes == Replay(of_cmds, <<>>)
    IN  /\ of_size = Len(bytes)
        /\ \A size \in -1..MaxSize + 1 :
              get_read_map(size, 0).data =
                  SubSeq(bytes, 1, IF size < 0 \/ size > Len(bytes) THEN Len(bytes) ELSE size)

WriteAfterTruncatedWrite ==
    \E i \in 1..Len(of_cmds), j \in 1..Len(of_cmds), k \in 1..Len(of_cmds) :
        /\ i < j /\ j < k
        /\ of_cmds[i].kind = "write" /\ of_cmds[j].kind = "truncate"
        /\ of_cmds[k].kind = "write"
        /\ of_cmds[i].offset + Len(of_cmds[i].buffer) > of_cmds[j].length
        /\ of_cmds[k].offset = of_cmds[j].length
        /\ of_cmds[k].buffer # <<of_cmds[i].buffer[of_cmds[j].length - of_cmds[i].offset + 1]>>

\* C16: no buffer of get_flush_map reaches a position at or above the length of a
\* Truncate of the log, except where a Write issued after that Truncate covers it.
FlushClippedAtTruncate ==
    \A j \in 1..Len(of_cmds) :
        of_cmds[j].kind = "truncate" =>
            \A b \in 1..Len(get_flush_map.buffers) :
                \A p \in of_cmds[j].length..(get_flush_map.buffers[b].end - 1) :
                    p >= get_flush_map.buffers[b].start =>
                        \E k \in (j + 1)..Len(of_cmds) :
                            /\ of_cmds[k].kind = "write"
                            /\ of_cmds[k].offset <= p
                            /\ p < of_cmds[k].offset + Len(of_cmds[k].buffer)

\* C17: truncate(length) with length above the size extends the file: afterwards the
\* size is length and the last command of the log is a Write of zeros over
\* [old size, length).
TruncateExtendsStep ==
    \A length \in 0..MaxSize + 1 :
        (truncate(length) /\ length > of_size) =>
            /\ of_size' = length
            /\ of_cmds' = Append(of_cmds,
                   WriteCmd(of_size, [i \in 1..(length - of_size) |-> "zero"]))

TruncateExtends == [][TruncateExtendsStep]_vars

\* C18: every span of get_sync_map(manifest) starts at a multiple of block_size and
\* ends at a multiple of block_size or at the size of the file.
BlockAlignment ==
    \A placeholder \in BOOLEAN, m \in SyncManifests :
        LET spans == get_sync_map(m, placeholder)
        IN  \A i \in 1..Len(spans) :
                /\ spans[i].start % block_size = 0
                /\ spans[i].end % block_size = 0 \/ spans[i].end = of_size

SyncMapEndRealigned ==
    \E m \in SyncManifests :
        LET bounds == get_not_synced_bounds(m, FALSE)
            spans == get_sync_map(m, FALSE)
        IN  /\ HoldsFile(m)
            /\ bounds.end % block_size # 0
            /\ spans # <<>>
            /\ spans[Len(spans)].end > bounds.end
            /\ spans[Len(spans)].end < of_size

\* What a call of write records.
WriteStep ==
    \A content \in Contents, offset \in -1..MaxSize :
        write(content, offset) =>
            IF content = <<>>
            THEN of_cmds' = of_cmds /\ of_size' = of_size
            ELSE LET off == IF offset = -1 \/ offset > of_size THEN of_size ELSE offset
                 IN  /\ of_cmds' = Append(of_cmds, WriteCmd(off, content))
                     /\ of_size' = Max(of_size, off + Len(content))

\* No Write of the log starts above the size the file had when it was recorded.
NoHole ==
    \A i \in 1..Len(of_cmds) :
        of_cmds[i].kind = "write" =>
            of_cmds[i].offset <= Len(Replay(SubSeq(of_cmds, 1, i - 1), <<>>))

\* C19: write records the Write at the size of the file when offset is -1 or above
\* the size, at offset otherwise; the size becomes the maximum of the size and the end
\* of the Write; no Write of the log starts above the size of its time; writing empty
\* content changes neither the log nor the size.
WriteAppendsOrOverwrites == [][WriteStep]_vars /\ []NoHole

AppendedThenOverwritten ==
    /\ Len(of_cmds) >= 3
    /\ of_cmds[1] = WriteCmd(0, <<"a", "b">>)
    /\ of_cmds[2] = WriteCmd(2, <<"a">>)
    /\ of_cmds[3] = WriteCmd(1, <<"a", "b">>)
    /\ of_size = 3

\* The log holds at most one MarkerCmd.
AtMostOneMarker ==
    Cardinality({i \in 1..Len(of_cmds) : of_cmds[i].kind = "marker"}) <= 1

\* create_marker while a marker is in the log fails and leaves the log as it is.
SecondMarkerRefused ==
    (create_marker /\ \E i \in 1..Len(of_cmds) : of_cmds[i].kind = "marker") =>
        /\ of_last'.op = "marker_error"
        /\ of_cmds' = of_cmds

\* C20: in every state the command log holds at most one MarkerCmd, and create_marker
\* while a marker is present raises an error and leaves the command log unchanged.
OneLiveMarker == []AtMostOneMarker /\ [][SecondMarkerRefused]_vars

MarkerRefused ==
    /\ of_last.op = "marker_error"
    /\ \E i \in 1..Len(of_cmds) : of_cmds[i].kind = "marker"
    /\ \E i \in 1..Len(of_cmds) : of_cmds[i].kind = "write"

\* C21: no two OpenedFile are stored for one entry, whatever the sequence of
\* open_file, close_file, resolve_placeholder_access and move_modifications.
OneOpenedFilePerEntry ==
    \A i \in Ids, j \in Ids :
        (om_opened[i].opened /\ om_opened[j].opened /\ EntryOf(i) = EntryOf(j)) => i = j

\* C22: a sync that finds need_sync false on the manifest it read posts no block and
\* sends no vlob_create/vlob_update for the entry, marks the entry outdated, sends
\* fs.entry.synced for its id exactly once and returns without error; no frame whose
\* manifest needs no sync ever reaches the block posts or the publish.
AtNeedSyncTest(t) ==
    /\ pc[t] = "running" /\ stack[t] # <<>>
    /\ \/ /\ Top(t).pc = "start"
          /\ is_file_manifest(store[Top(t).access])
          /\ ~store[Top(t).access].need_sync
       \/ /\ Top(t).pc = "start"
          /\ is_folder_manifest(store[Top(t).access])
          /\ ~Truthy(Top(t).recursive)
          /\ ~store[Top(t).access].need_sync
       \/ /\ Top(t).pc = "children"
          /\ Top(t).i > Len(Top(t).manifest.children)
          /\ ~Top(t).manifest.need_sync
NothingToDoStep ==
    \A t \in Tasks :
        (AtNeedSyncTest(t) /\ stack'[t] # stack[t]) =>
            /\ vlobs' = vlobs
            /\ blockstore' = blockstore
            /\ store' = [store EXCEPT ![Top(t).access] = NoManifest]
            /\ last'.op = "nothing" /\ last'.id = Top(t).access
            /\ last'.events = <<Top(t).access>>
            /\ last'.ended # "raised"
            /\ Len(stack'[t]) = Len(stack[t]) - 1
NoRequestWithoutNeedSync ==
    \A t \in Tasks :
        (stack[t] # <<>> /\ Top(t).pc \in {"post", "publish"}) =>
            Top(t).manifest.need_sync
NothingToDo == []NoRequestWithoutNeedSync /\ [][NothingToDoStep]_vars
FolderHadNothingToDo ==
    /\ last.op = "nothing" /\ last.id \in Folders
    /\ last.ended = "returned" /\ last.events = <<last.id>>
    /\ store[last.id] = NoManifest

\* C23: a sync of an access without local manifest, and a sync_by_id of an id that is
\* not present locally, return without error, send nothing to the backend, send no
\* event and leave the local store as it was; the task does not hold the lock
\* afterwards.
Quiet(t) ==
    /\ vlobs' = vlobs /\ blockstore' = blockstore /\ store' = store
    /\ last'.events = <<>> /\ last'.ended = "returned" /\ last'.status = "ok"
    /\ lockOwner' # t /\ t \notin {lockQueue'[i] : i \in 1..Len(lockQueue')}
    /\ pc'[t] = "idle"
MissingEntryStep ==
    \A t \in Tasks :
        /\ ( /\ pc[t] = "running" /\ Len(stack[t]) = 1
             /\ Top(t).pc = "start"
             /\ store[Top(t).access].type = "none"
             /\ stack'[t] # stack[t] ) => (Quiet(t) /\ last'.op = "missing")
        /\ \A id \in Entries :
             ( /\ sync_by_id(t, id)
               /\ \/ store[id].type = "none"
                  \/ store["root"].type = "none" ) => (Quiet(t) /\ last'.op = "local_miss")
MissingEntry == [][MissingEntryStep]_vars
MissingEntryReturned ==
    /\ last.op = "missing" /\ last.ended = "returned"
    /\ lockOwner = NoTask /\ store[last.id] = NoManifest
LocalMissReturned ==
    /\ last.op = "local_miss" /\ last.ended = "returned"
    /\ store[last.id] = NoManifest

\* C24: a child is synced only under a folder whose `recursive` is true or a non-empty
\* mapping, in the order of the children, with `recursive` itself or, for a mapping,
\* with recursive.get(name, False); when the folder's vlob_create/vlob_update is sent
\* the folder needs a sync and every child's sync has returned if `recursive` is true
\* or a non-empty mapping, and none was started otherwise.
ExpectedChildRecursive(r, name) ==
    IF r = RecTrue THEN RecTrue
    ELSE IF r.kind = "dict" /\ name \in r.keys /\ name \in r.on THEN RecTrue
    ELSE RecFalse
SyncsChildren(r) == r = RecTrue \/ (r.kind = "dict" /\ r.keys # {})
ChildFrames ==
    \A t \in Tasks : \A k \in 2..Len(stack[t]) :
        LET parent == stack[t][k - 1]
            child == stack[t][k]
        IN  /\ parent.access \in Folders
            /\ SyncsChildren(parent.recursive)
            /\ Len(parent.done) < Len(parent.manifest.children)
            /\ child.access = parent.manifest.children[Len(parent.done) + 1]
            /\ child.recursive = ExpectedChildRecursive(parent.recursive, child.access)
FolderPublishStep ==
    \A t \in Tasks :
        ( /\ pc[t] = "running" /\ stack[t] # <<>>
          /\ Top(t).pc = "publish" /\ Top(t).access \in Folders
          /\ stack'[t] # stack[t] ) =>
            /\ Top(t).manifest.need_sync
            /\ Top(t).done = IF SyncsChildren(Top(t).recursive)
                             THEN Top(t).manifest.children ELSE <<>>
FolderSyncOrder == []ChildFrames /\ [][FolderPublishStep]_vars
\* C24 as stated: every mapping, the empty one too, has each child synced before the
\* folder is published.
FolderPublishStepAnyMapping ==
    \A t \in Tasks :
        ( /\ pc[t] = "running" /\ stack[t] # <<>>
          /\ Top(t).pc = "publish" /\ Top(t).access \in Folders
          /\ stack'[t] # stack[t] ) =>
            /\ Top(t).manifest.need_sync
            /\ Top(t).done = IF Top(t).recursive = RecTrue \/ Top(t).recursive.kind = "dict"
                             THEN Top(t).manifest.children ELSE <<>>
FolderSyncOrderAnyMapping == []ChildFrames /\ [][FolderPublishStepAnyMapping]_vars
FolderPublishedAfterChild ==
    /\ last.op \in {"vlob_create", "vlob_update"} /\ last.id \in Folders
    /\ last.ended = "returned"
    /\ prev.valid /\ prev.id = last.id /\ prev.recursive = RecDict({"f"}, {"f"})
    /\ vlobs["f"].version > 0

\* C25: no folder manifest is published while one of its children is a placeholder
\* whose id was never published.
UnpublishedPlaceholder(e) == store[e].is_placeholder /\ vlobs[e].version = 0
ParentPublishStep ==
    \A d \in Folders :
        (vlobs'[d] # vlobs[d] /\ last'.op \in {"vlob_create", "vlob_update"}) =>
            \A i \in 1..Len(vlobs'[d].blob.children) :
                ~UnpublishedPlaceholder(vlobs'[d].blob.children[i])
ParentPublishDeferred == [][ParentPublishStep]_vars

\* C26: a command raises BackendCmdsInvalidRequest when the serializer rejects its
\* request or the response has status invalid_msg_format, BackendNotAvailable on a
\* transport error, BackendCmdsInvalidResponse when the serializer rejects the
\* response, BackendCmdsBadResponse on any other status than ok, and returns a value
\* only for a well-formed response with status ok.
FailuresPartitioned ==
    bc_last.task # "none" =>
        /\ bc_last.raised = "BackendCmdsInvalidRequest"
             <=> (bc_last.req_rejected \/ bc_last.status = "invalid_msg_format")
        /\ bc_last.raised = "BackendNotAvailable" <=> bc_last.transport_error
        /\ bc_last.raised = "BackendCmdsInvalidResponse" <=> bc_last.rep_rejected
        /\ bc_last.raised = "BackendCmdsBadResponse"
             <=> bc_last.status \notin {"none", "ok", "invalid_msg_format"}
        /\ bc_last.returned <=> bc_last.status = "ok"
        /\ bc_last.returned => (bc_last.raised = "none" /\ bc_last.value \in Pings)
        /\ bc_last.raised # "none" => bc_last.value = "none"
BadStatusRaised ==
    /\ bc_last.status = "not_found" /\ bc_last.raised = "BackendCmdsBadResponse"

\* C27: a task that reads a response on the shared transport reads the answer to its
\* own request.
OwnResponse ==
    bc_last.answer_to # "none" => bc_last.answer_to = bc_last.task

\* C28: the gate of an OpenedFile is cleared exactly while one start_syncing scope is
\* active on it and two scopes on it are never active together; every exit of the
\* scope, by an exception too, sets it again; start_syncing while the gate is cleared
\* raises, enters nothing and leaves the gate cleared for the scope that owns it.
ScopesOn(fd) ==
    {<<t, i>> \in Tasks \X (1..Cardinality(Fds)) :
        i <= Len(gt_scopes[t]) /\ gt_scopes[t][i] = fd}
GateIffScope ==
    \A fd \in Fds : (~gt_event[fd] <=> ScopesOn(fd) # {}) /\ Cardinality(ScopesOn(fd)) <= 1
GateStep ==
    \A t \in Tasks :
        /\ \A how \in {"end", "exception"} :
             exit_syncing(t, how) => gt_event'[gt_scopes[t][Len(gt_scopes[t])]]
        /\ \A fd \in Fds :
             /\ (start_syncing(t, fd) /\ ScopesOn(fd) # {}) =>
                    (gt_last'.raised /\ ~gt_event'[fd] /\ gt_scopes' = gt_scopes)
             /\ (start_syncing(t, fd) /\ ScopesOn(fd) = {}) =>
                    (~gt_last'.raised /\ ~gt_event'[fd] /\ gt_scopes'[t] = Append(gt_scopes[t], fd))
SyncGateScoped == []GateIffScope /\ [][GateStep]_vars
SecondScopeRefused ==
    /\ gt_last.op = "start_syncing" /\ gt_last.raised
    /\ \E t \in Tasks : t # gt_last.task /\ gt_scopes[t] = <<gt_last.fd>>
    /\ ~gt_event[gt_last.fd]

\* C29: a task back from wait_not_syncing, and the flush it runs then, never find a
\* start_syncing scope active on the OpenedFile.
NoFlushWhileSyncing ==
    gt_last.op \in {"wait_not_syncing", "flush"} => ~gt_last.syncing

\* C30: no sync ends, cancelled or interrupted once the backend accepted its
\* vlob_create/vlob_update, with the remote vlob at base_version + 1 while the local
\* manifest still has the old base_version and need_sync true.
NoHalfPublishedManifest ==
    \A e \in Entries :
        ( /\ last.ended = "raised" /\ last.id = e
          /\ last.op \in {"vlob_create", "vlob_update"} ) =>
            ~ ( /\ vlobs[e].version = store[e].base_version + 1
                /\ vlobs[e].version = last.version
                /\ store[e].need_sync )

\* C34: when the vlob_create/vlob_update of a file manifest is sent, every block of
\* its dirty_blocks has been posted, in order, with an ok answer; a block post that
\* fails ends the sync with nothing published; a file that needs a sync and has no
\* dirty block goes to the publish without any block post, and is published with the
\* blocks it had.
AtFilePublish(t) ==
    /\ pc[t] = "running" /\ stack[t] # <<>>
    /\ Top(t).pc = "publish" /\ Top(t).access \in Files
DataBeforeMetadataStep ==
    \A t \in Tasks :
        /\ (AtFilePublish(t) /\ stack'[t] # stack[t]) =>
              /\ Top(t).posted = [i \in 1..Len(Top(t).manifest.dirty_blocks) |->
                                    [block |-> Top(t).manifest.dirty_blocks[i],
                                     status |-> "ok"]]
              /\ \A i \in 1..Len(Top(t).manifest.dirty_blocks) :
                    Top(t).manifest.dirty_blocks[i] \in blockstore
              /\ blockstore' = blockstore
              /\ (Top(t).manifest.dirty_blocks = <<>> /\ vlobs'[Top(t).access] # vlobs[Top(t).access])
                    => vlobs'[Top(t).access].blob.blocks = Top(t).manifest.blocks
        /\ ( /\ pc[t] = "running" /\ stack[t] # <<>> /\ Top(t).pc = "post"
             /\ stack'[t] # stack[t] /\ last'.status # "ok" ) =>
              (vlobs' = vlobs /\ stack'[t] = <<>> /\ last'.ended = "raised")
        /\ ( /\ pc[t] = "running" /\ stack[t] # <<>> /\ Top(t).pc = "start"
             /\ is_file_manifest(store[Top(t).access])
             /\ store[Top(t).access].need_sync
             /\ store[Top(t).access].dirty_blocks = <<>>
             /\ stack'[t] # stack[t] ) =>
              (stack'[t][Len(stack'[t])].pc = "publish" /\ blockstore' = blockstore)
DataBeforeMetadata == [][DataBeforeMetadataStep]_vars
FilePublishedAfterBlocks ==
    /\ last.op \in {"vlob_create", "vlob_update"} /\ last.id \in Files
    /\ last.ended = "returned"
    /\ vlobs[last.id].blob.blocks # <<>>
    /\ \A i \in 1..Len(vlobs[last.id].blob.blocks) : vlobs[last.id].blob.blocks[i] \in blockstore

\* C39: a step that completes the sync of an entry, by finding nothing to do or by
\* a publish the backend accepted, sends fs.entry.synced for that entry exactly once,
\* and after a publish the new local manifest is stored by then; a step that fails,
\* posts a block or finds no local manifest sends none.
SyncedEvents ==
    /\ last.op = "nothing" => last.events = <<last.id>>
    /\ (last.op \in {"vlob_create", "vlob_update"} /\ last.status = "ok") =>
          /\ last.events = <<last.id>>
          /\ last.ended # "raised"
          /\ vlobs[last.id].version >= last.version
          /\ store[last.id].base_version = last.version
          /\ ~store[last.id].need_sync
    /\ (last.op \in {"vlob_create", "vlob_update"} /\ last.status # "ok") =>
          (last.events = <<>> /\ last.ended = "raised")
    /\ last.op \in {"missing", "block_post", "none", "env"} => last.events = <<>>
    /\ last.ended = "raised" => last.events = <<>>
    /\ Len(last.events) <= 1
ChildSyncedInsideFolderSync ==
    /\ last.op \in {"vlob_create", "vlob_update"} /\ last.id \in Files
    /\ last.events = <<last.id>> /\ last.ended = "no"
    /\ \E t \in Tasks : stack[t] # <<>> /\ Top(t).access \in Folders

\* C38: the lock is held exactly by the task whose sync body runs, nested
\* _sync_nolock calls included; the step that ends a sync, by return or by error,
\* hands the lock to the first waiting task or leaves it free; and every task waiting
\* on the lock eventually runs its sync.
LockHeldByRunning ==
    \A t \in Tasks :
        /\ stack[t] # <<>> => (lockOwner = t /\ pc[t] = "running")
        /\ pc[t] \in {"acquired", "running"} <=> lockOwner = t
        /\ pc[t] = "waiting" <=> \E i \in 1..Len(lockQueue) : lockQueue[i] = t
LockReleaseStep ==
    \A t \in Tasks :
        /\ (pc[t] = "running" /\ pc'[t] # "running") =>
              /\ pc'[t] = "idle" /\ stack'[t] = <<>>
              /\ last'.ended \in {"returned", "raised"}
              /\ lockOwner' = IF lockQueue = <<>> THEN NoTask ELSE Head(lockQueue)
        /\ (stack[t] # <<>> /\ Len(stack'[t]) > Len(stack[t])) =>
              (lockOwner' = t /\ lockQueue' = lockQueue)
SyncLockReleased ==
    /\ []LockHeldByRunning
    /\ [][LockReleaseStep]_vars
    /\ \A t \in Tasks : (pc[t] = "waiting") ~> (pc[t] = "running")
WaiterGotLockAfterError ==
    /\ last.ended = "raised"
    /\ \E t \in Tasks : pc[t] = "acquired" /\ lockOwner = t

\* C35: for every log of writes and truncates and every manifest that goes with the
\* file, placeholder or not, the two assertions of get_sync_map hold.
SyncMapAssertionsHold ==
    \A m \in SyncManifests, placeholder \in BOOLEAN :
        ( /\ HoldsFile(m)
          /\ placeholder => m.blocks = <<>>
          /\ \A i \in 1..Len(m.dirty_blocks) : m.dirty_blocks[i].end <= of_size ) =>
            get_sync_map_asserts(m, placeholder)

\* C40: a block id has at most one metadata row, one per create that returned
\* success, and the size of that row is the length of the bytes stored for the id.
MetadataDescribesData ==
    \A id \in BlockIds :
        /\ Cardinality(MetaRows(id)) <= 1
        /\ \A row \in MetaRows(id) :
              /\ DataRows(id) # {}
              /\ \A d \in DataRows(id) : Len(d.data) = row.size

\* C36: a command sends its request once and then receives once; a request the
\* serializer rejects is not sent, and a failed send is followed by no receive; a
\* command that failed leaves on the transport neither a request of its task still to
\* be answered nor a response to it still to be read.
InFlightOf(t) ==
    {i \in 1..Len(bc_sent) : bc_sent[i].from = t}
        \cup {Len(bc_sent) + i : i \in {j \in 1..Len(bc_recv) : bc_recv[j].answer_to = t}}
CommandIOStep ==
    \A t \in Tasks :
        /\ (bc_pc[t] = "idle" /\ bc_last'.task = t /\ bc_last'.req_rejected) =>
              (bc_sent' = bc_sent /\ bc_pc'[t] = "idle")
        /\ (bc_pc[t] = "idle" /\ bc_last'.task = t /\ bc_last'.transport_error) =>
              (bc_recv' = bc_recv /\ bc_pc'[t] = "idle")
        /\ (bc_pc[t] = "idle" /\ bc_pc'[t] = "sent") => Len(bc_sent') = Len(bc_sent) + 1
        /\ (bc_pc[t] = "sent" /\ bc_pc'[t] # "sent") =>
              (bc_pc'[t] = "idle" /\ Len(bc_recv') >= Len(bc_recv) - 1)
NoUnreadResponseAfterFailure ==
    \A t \in Tasks :
        (bc_last.task = t /\ bc_last.raised # "none" /\ bc_pc[t] = "idle") =>
            InFlightOf(t) = {}
CommandIOOrder == []NoUnreadResponseAfterFailure /\ [][CommandIOStep]_vars

\* C37: every resolved id recorded in _resolved_placeholder_accesses is a key of
\* opened_files.
ResolvedIdsAreOpened ==
    \A id \in Ids : om_resolved[id] # NoId => om_opened[om_resolved[id]].opened

\* ---------------------------------------------------------------------------
\* C32: certificate round trip.  Whenever a certificate built by
\* build_<type>_certificate(certifier_id, certifier_key, fields, timestamp) has
\* been handed to verify_<type>_certificate of the same type: with
\* certifier_id as the expected author and the verify key matching
\* certifier_key, the call returned exactly the built fields with certified_by
\* equal to certifier_id and certified_on equal to timestamp; with another
\* expected author or a key that does not match, it failed and returned no
\* data.
CertificateRoundTrip ==
    (ct_verified # NoVerified /\ ct_verified.type = ct_built.type) =>
        IF /\ ct_verified.expected_author_id = ct_built.certifier_id
           /\ ct_verified.author_verify_key = verify_key_of(ct_built.certifier_key)
        THEN ct_verified.ret =
                CtOk([n \in DOMAIN ct_built.fields \cup {"certified_by", "certified_on"} |->
                        CASE n = "certified_by" -> ct_built.certifier_id
                          [] n = "certified_on" -> ct_built.timestamp
                          [] OTHER -> ct_built.fields[n]])
        ELSE ct_verified.ret.status # "ok"

\* A certificate was verified and its data returned, and (in another state)
\* a verification with the wrong author failed.
CertificateVerified ==
    /\ ct_verified.type = ct_built.type
    /\ ct_verified.ret.status = "ok"
    /\ ct_built.certifier_id # "None"

\* ---------------------------------------------------------------------------
\* C33: mountpoint events are ordered.  For every mountpoint whose runner
\* emitted mountpoint.starting: its events are starting, then at most one
\* started, then stopped, and a runner that is over has emitted stopped;
\* stopped is emitted only after the FUSE thread has stopped; started is
\* emitted only after the mount became ready and never after the FUSE
\* thread crashed during its startup; and every exit (an unmount, a
\* cancellation, a crash of FUSE) leads to exactly one stopped.
MountpointEventOrders ==
    {<<>>,
     <<"mountpoint.starting">>,
     <<"mountpoint.starting", "mountpoint.started">>,
     <<"mountpoint.starting", "mountpoint.stopped">>,
     <<"mountpoint.starting", "mountpoint.started", "mountpoint.stopped">>}

Emitted(m, topic) == \E i \in 1..Len(mp_events[m]) : mp_events[m][i] = topic

MountpointOrder ==
    \A m \in Mountpoints :
        /\ mp_events[m] \in MountpointEventOrders
        /\ (mp_pc[m] = "done" /\ mp_events[m] # <<>>) =>
                Emitted(m, "mountpoint.stopped")
        /\ Emitted(m, "mountpoint.stopped") => mp_thread[m] \in ThreadStopped
        /\ Emitted(m, "mountpoint.started") =>
                mp_thread[m] \in {"mounted", "exited", "crashed"}

MountpointStoppedOnExit ==
    \A m \in Mountpoints :
        (/\ Emitted(m, "mountpoint.starting")
         /\ (mp_cancelled[m] \/ mp_thread[m] \in ThreadStopped))
            ~> Emitted(m, "mountpoint.stopped")

MountpointEventsOrdered == []MountpointOrder /\ MountpointStoppedOnExit

====
